---- MODULE Spec2Model ----
(***************************************************************************)
(* Extraction-and-cache pipeline of the Vuetify utility-class extension:   *)
(* VuetifyExtractor (orchestrator), VuetifyCache (memory + file storage)   *)
(* and the filesystem they read.  Every `await` on I/O is a suspension     *)
(* point: an action is the I/O completing plus the synchronous code that   *)
(* runs up to the next suspension.                                         *)
(***************************************************************************)
EXTENDS Integers, Sequences, FiniteSets, TLC

\* ---------------------------------------------------------------- bounds
MaxRuns == 3        \* extractAll invocations in one behaviour
MaxRunsShort == 2   \* the same, in the specifications of short scenarios
MaxCalls == 2       \* ensureExtracted invocations in one behaviour
MaxClears == 1      \* clear() invocations in one behaviour
MaxEnv == 1         \* filesystem changes in one behaviour
MaxEnvLong == 2     \* the same, in the specification of long scenarios
MaxFaults == 1      \* failing I/O calls in one behaviour
MaxRestarts == 1    \* restarts of the extension host in one behaviour
MaxEvents == 3      \* filesystem events delivered to the watcher
MaxTime == 3000     \* the clock stops here (ms)
MaxRules == 3       \* rules of a parsed sheet

\* ------------------------------------------------------------ value sets
Roots == {1, 2}                 \* workspace folders, in folder order
Versions == {"3.1.0", "3.2.0"}  \* package.json version strings
Contents == {1, 2}              \* distinct byte contents of an artifact
RunIds == 1..MaxRuns

NoHash == "undefined"
NoEntry == [version |-> "undefined", utilities |-> <<>>, hash |-> NoHash]

NoGet == [hit |-> FALSE, version |-> "undefined", from |-> NoEntry,
          current |-> NoHash]

\* allUtilitiesCache: null is << >>, a memoized array a is <<a>>.
NullAll == <<>>

NoRestart == [count |-> 0, at |-> 0, index |-> <<>>]

\* Nothing handled by the watcher yet: no event, no manifest event, no trigger of a
\* re-extraction (last: arrival time of the last one, calls: extractAll calls
\* of the burst it belongs to), no artifact removal.
NoEvents == [events |-> 0, triggers |-> 0, last |-> 0, calls |-> 0,
             manifests |-> 0, deletes |-> 0]

\* -------------------------------------------------------- pure functions
\* parser.parseCSS: the utility records mined from an artifact's bytes.
ParseCSS(c) == IF c = 1 THEN <<"ma-2">> ELSE <<"ma-2", "d-flex">>

\* crypto.createHash('sha256').update(content).digest('hex')
Sha256(c) == IF c = 1 THEN "6b86b273" ELSE "d4735e3a"

\* folder.uri.fsPath of each workspace folder, as a sequence of characters.
RootPath(root) ==
  IF root = 1 THEN <<"/", "a", "/", "b">>
  ELSE <<"/", "a", "/", "b", "-", "c">>

\* string.startsWith
StartsWith(s, p) == Len(p) <= Len(s) /\ SubSeq(s, 1, Len(p)) = p

\* The key component of the storage that preceded the file cache: every
\* character of the path that is not a letter or a digit becomes '-'.
sanitizePath(path) ==
  [i \in 1..Len(path) |-> IF path[i] \in {"a", "b", "c"} THEN path[i] ELSE "-"]

\* first 16 hex digits of the SHA-256 of the workspace path
PathHash(path) ==
  IF path = <<"/", "a", "/", "b">>
  THEN <<"6", "6", "2", "b", "7", "b", "6", "2",
         "a", "7", "9", "8", "b", "b", "2", "d">>
  ELSE <<"6", "9", "3", "a", "1", "a", "8", "d",
         "b", "4", "8", "c", "6", "6", "9", "9">>

\* `vuetify-cache-${pathHash}`: the key prefix of a root's files.
KeyPrefix(root) == <<"vuetify-cache-">> \o PathHash(RootPath(root))

\* getCacheKey: vuetify-cache-<pathHash>-<version>.json
getCacheKey(root, version) == KeyPrefix(root) \o <<"-", version, ".json">>

\* JSON.stringify(entry) / JSON.parse(json): an undefined hash is dropped by
\* stringify and reads back as undefined.
Stringify(e) ==
  IF e.hash = NoHash THEN <<e.version, e.utilities>>
  ELSE <<e.version, e.utilities, e.hash>>

ParseJson(j) ==
  [version |-> j[1], utilities |-> j[2],
   hash |-> IF Len(j) = 3 THEN j[3] ELSE NoHash]

\* Map<string, T> with insertion order, as a sequence of <<key, value>>.
MapHas(m, k) == \E i \in 1..Len(m) : m[i][1] = k

MapGet(m, k) == m[CHOOSE i \in 1..Len(m) : m[i][1] = k][2]

MapSet(m, k, v) ==
  IF MapHas(m, k)
  THEN [i \in 1..Len(m) |-> IF m[i][1] = k THEN <<k, v>> ELSE m[i]]
  ELSE Append(m, <<k, v>>)

\* ------------------------------------------------------------- variables
VARIABLES
  installed,          \* root -> whether a confirmed installation exists
  version,            \* root -> version in the installation's manifest
  bytes,              \* root -> current content of the root's artifact
  memoryCache,        \* VuetifyCache.memoryCache: root -> CacheEntry
  disk,               \* files under storageUri: cache key -> JSON text
  utilities,          \* VuetifyExtractor.utilities (the Index)
  isExtracted,        \* VuetifyExtractor.isExtracted
  extractionPromise,  \* run whose promise ensureExtracted cached, 0 = null
  abortController,    \* run whose controller is stored, 0 = null
  runs,               \* extractAll invocations: id -> frame
  nextRun,            \* extractAll invocations started so far
  calls,              \* ensureExtracted invocations, in call order
  clearPc,            \* clear(): "idle", or "disk" awaiting clearDiskCache
  clears,             \* clear() invocations so far
  envChanges,         \* filesystem changes so far
  faults,             \* failed I/O calls so far
  quietFrom,          \* history: first run of the current undisturbed
                      \* one-at-a-time sequence of runs, 0 = none
  lastGet,            \* history: outcome of the cache.get that returned in
                      \* the step leading to this state, if one did
  allUtilitiesCache,  \* VuetifyExtractor.allUtilitiesCache
  notified,           \* the message shown to the user by the step leading
                      \* to this state, "none" if it showed none
  restart,            \* history: restarts so far, the runs started and the
                      \* Index held when the last one happened
  debounceTimer,      \* VuetifyWatcher.debounceTimer: handle of the last
                      \* timer set, 0 = null
  timers,             \* pending timers of the host: handle -> due time (ms)
  now,                \* the clock, in ms
  reading,            \* handlePackageJsonChange calls awaiting readFile
  watched,            \* history: events handled by the watcher
  watchers,           \* VuetifyWatcher.watchers: "registered" once setup()
                      \* has run, "disposed" after dispose()
  tree,               \* root -> what lies at each location the finder probes
  located,              \* what the finder's findAll returned for the tree
  sheet,              \* the artifact handed to CSSParser.parseCSS
  parseResult         \* what parseCSS did with the sheet

vars == <<installed, version, bytes, memoryCache, disk, utilities,
          isExtracted, extractionPromise, abortController, runs, nextRun,
          calls, clearPc, clears, envChanges, faults, quietFrom, lastGet,
          allUtilitiesCache, notified, restart,
          debounceTimer, timers, now, reading, watched, watchers, tree,
          located, sheet, parseResult>>

watchVars == <<debounceTimer, timers, now, reading, watched, watchers>>
\* Everything outside VuetifyExtractor, VuetifyCache and the filesystem.
finderVars == <<tree, located>>
parserVars == <<sheet, parseResult>>
sideVars == <<watchVars, finderVars, parserVars>>

fsVars == <<installed, version, bytes>>
cacheVars == <<memoryCache, disk>>

\* ----------------------------------------------------------- VuetifyCache
\* A storage whose files cannot be read back.
readFromDiskAbsent(d, root, ver, readOk) == NoEntry

\* readFromDisk: the parsed file of (root, version); undefined when the file
\* is missing or the read fails.
readFromDisk(d, root, ver, readOk) ==
  IF readOk /\ getCacheKey(root, ver) \in DOMAIN d
  THEN ParseJson(d[getCacheKey(root, ver)])
  ELSE NoEntry

\* calculateFileHash: SHA-256 of the artifact's current bytes; undefined
\* when the read fails.
calculateFileHash(b, root, hashOk) ==
  IF hashOk THEN Sha256(b[root]) ELSE NoHash

\* A storage whose writes are all lost.
writeToDiskLost(d, root, ver, entry, writeOk) == d

\* writeToDisk: the file of (root, version) is replaced; a failed write is
\* logged and changes nothing.
writeToDisk(d, root, ver, entry, writeOk) ==
  IF writeOk
  THEN [k \in DOMAIN d \cup {getCacheKey(root, ver)} |->
          IF k = getCacheKey(root, ver) THEN Stringify(entry) ELSE d[k]]
  ELSE d

\* deleteFromDisk: every file whose name starts with the root's key prefix;
\* a failed directory listing deletes nothing.
deleteFromDisk(d, root, deleteOk) ==
  IF deleteOk
  THEN [k \in {x \in DOMAIN d : ~StartsWith(x, KeyPrefix(root))} |-> d[k]]
  ELSE d

\* clearDiskCache: every file whose name starts with 'vuetify-cache-'.
clearDiskCache(d, deleteOk) ==
  IF deleteOk
  THEN [k \in {x \in DOMAIN d : ~StartsWith(x, <<"vuetify-cache-">>)} |-> d[k]]
  ELSE d

\* The memory lookup that opens get(): the entry when its version matches.
memLookup(mem, root, ver) ==
  IF root \in DOMAIN mem /\ mem[root].version = ver THEN mem[root] ELSE NoEntry

\* isValid: get(root, version) without a path must find something (memHit:
\* it did so in memory), then the stored hash that is compared is the one of
\* the disk entry.
isValid(memHit, d, b, root, ver, readOk, hashOk) ==
  LET diskEntry == readFromDisk(d, root, ver, readOk)
      currentHash == calculateFileHash(b, root, hashOk)
  IN /\ (memHit \/ diskEntry # NoEntry)
     /\ diskEntry # NoEntry
     /\ currentHash # NoHash
     /\ currentHash = diskEntry.hash

\* invalidate: memory entry and disk files of the root.
invalidate(mem, d, root, deleteOk) ==
  [mem |-> [k \in DOMAIN mem \ {root} |-> mem[k]],
   disk |-> deleteFromDisk(d, root, deleteOk)]

\* get(root, version, cssFilePath) from the point where its I/O completes.
\* memEntry is what the memory lookup returned when get was called.  The
\* result says whether records are returned, which entry they come from, and
\* the cache after the call.
cacheGet(memEntry, mem, d, b, root, ver, readOk, hashOk, deleteOk) ==
  LET diskEntry == readFromDisk(d, root, ver, readOk)
      inv == invalidate(mem, d, root, deleteOk)
      miss == [hit |-> FALSE, from |-> NoEntry, mem |-> mem, disk |-> d]
  IN IF memEntry # NoEntry
     THEN IF isValid(TRUE, d, b, root, ver, readOk, hashOk)
          THEN [hit |-> TRUE, from |-> memEntry, mem |-> mem, disk |-> d]
          ELSE [miss EXCEPT !.mem = inv.mem, !.disk = inv.disk]
     ELSE IF diskEntry # NoEntry /\ diskEntry.version = ver
          THEN IF isValid(memLookup(mem, root, ver) # NoEntry,
                          d, b, root, ver, readOk, hashOk)
               THEN [hit |-> TRUE, from |-> diskEntry,
                     mem |-> [k \in DOMAIN mem \cup {root} |->
                                IF k = root THEN diskEntry ELSE mem[k]],
                     disk |-> d]
               ELSE [miss EXCEPT !.mem = inv.mem, !.disk = inv.disk]
          ELSE miss

\* set(): the entry built once the artifact has been hashed.
newEntry(ver, records, hash) ==
  [version |-> ver, utilities |-> records, hash |-> hash]

\* ------------------------------------------------------- VuetifyExtractor
RootOrder == <<1, 2>>

\* A finder that reports every workspace folder as an installation.
findAllFolders(inst, ver) ==
  [i \in 1..Len(RootOrder) |->
     [workspacePath |-> RootOrder[i], version |-> ver[RootOrder[i]]]]

\* finder.findAll(): one installation per root that has a confirmed one, in
\* workspace-folder order.
findAll(inst, ver) ==
  LET found == SelectSeq(RootOrder, LAMBDA r : inst[r])
  IN [i \in 1..Len(found) |-> [workspacePath |-> found[i], version |-> ver[found[i]]]]

\* The frame of an extractAll invocation.  pc is the await it is suspended
\* at, rejected whether its promise was rejected.  History: snap is the Index when the call was made, mid the roots
\* other runs were processing then, adopted what this run stored.
NewFrame ==
  [pc |-> "new", force |-> FALSE, aborted |-> FALSE, viaEnsure |-> FALSE,
   insts |-> <<>>, k |-> 0, memEntry |-> NoEntry, parsed |-> <<>>,
   entry |-> NoEntry, snap |-> <<>>, mid |-> {}, adopted |-> <<>>,
   rejected |-> FALSE]

InFlight == {r \in RunIds : runs[r].pc \notin {"new", "done"}}
Idle == InFlight = {} /\ clearPc = "idle"

\* The root a suspended frame is processing.
CurRoot(f) == f.insts[f.k].workspacePath
CurVersion(f) == f.insts[f.k].version
InRoot(f) == f.pc \in {"get", "parse", "hash", "write"}

\* getUtilities: the Index entry of a root, [] when there is none.
getUtilities(idx, root) == IF MapHas(idx, root) THEN MapGet(idx, root) ELSE <<>>

\* extractAll lines 36-39: abort the stored controller, if any.
abortPrevious(rs, ac) ==
  IF ac # 0 THEN [rs EXCEPT ![ac].aborted = TRUE] ELSE rs

\* An extractForWorkspace that consults the cache whatever forceRefresh is.
beginRootCached(f, k, mem) ==
  [f EXCEPT !.k = k, !.pc = "get",
            !.memEntry = memLookup(mem, f.insts[k].workspacePath,
                                   f.insts[k].version),
            !.parsed = <<>>, !.entry = NoEntry]

\* A loop that takes up the last root, whichever root it is asked for.
beginRootLast(f, k, mem) ==
  LET last == Len(f.insts)
      inst == f.insts[last]
  IN IF f.force
     THEN [f EXCEPT !.k = last, !.pc = "parse", !.memEntry = NoEntry,
                    !.parsed = <<>>, !.entry = NoEntry]
     ELSE [f EXCEPT !.k = last, !.pc = "get",
                    !.memEntry = memLookup(mem, inst.workspacePath, inst.version),
                    !.parsed = <<>>, !.entry = NoEntry]

\* extractForWorkspace up to its first await: cache.get's memory lookup
\* (unless forceRefresh), else parseCSS.
beginRoot(f, k, mem) ==
  LET inst == f.insts[k]
  IN IF f.force
     THEN [f EXCEPT !.k = k, !.pc = "parse", !.memEntry = NoEntry,
                    !.parsed = <<>>, !.entry = NoEntry]
     ELSE [f EXCEPT !.k = k, !.pc = "get",
                    !.memEntry = memLookup(mem, inst.workspacePath, inst.version),
                    !.parsed = <<>>, !.entry = NoEntry]

\* The frame once extractAll returns (its finally block has run).
finished(f) ==
  [f EXCEPT !.pc = "done", !.insts = <<>>, !.k = 0, !.memEntry = NoEntry,
            !.parsed = <<>>, !.entry = NoEntry]

\* A loop that ends with the root it has just handled.
afterRootStop(f, mem) == finished(f)

\* extractAll lines 64-78 after a root has been processed or has failed: the
\* signal is checked before the next root only.
afterRoot(f, mem) ==
  IF f.k < Len(f.insts)
  THEN IF f.aborted THEN finished(f) ELSE beginRoot(f, f.k + 1, mem)
  ELSE finished(f)

\* Line 78: the loop ran to its end.
loopEnded(f) == f.k >= Len(f.insts)

\* A write of the Index by frame f (utilities.set), with its history.
adopt(f, records) ==
  [f EXCEPT !.adopted = MapSet(@, CurRoot(f), records)]

\* What every step of run r does with the frame it ends in: the finally
\* block (line 87), the .finally of ensureExtracted (line 182) and the
\* continuations of the callers awaiting the run.
Settle(r, f2) ==
  LET fin == f2.pc = "done"
  IN /\ runs' = [runs EXCEPT ![r] = f2]
     /\ abortController' = IF fin THEN 0 ELSE abortController
     /\ extractionPromise' =
          IF fin /\ f2.viaEnsure THEN 0 ELSE extractionPromise
     /\ calls' = IF fin
                 THEN [i \in DOMAIN calls |->
                         IF calls[i].awaits = r
                         THEN [calls[i] EXCEPT !.resolved = TRUE]
                         ELSE calls[i]]
                 ELSE calls

\* An I/O call may fail while the fault budget lasts.
Outcomes(limit) == IF faults < limit THEN {TRUE, FALSE} ELSE {TRUE}
Fault(ok) ==
  /\ faults' = IF ok THEN faults ELSE faults + 1
  /\ quietFrom' = IF ok THEN quietFrom ELSE 0

\* extractAll(forceRefresh) up to `await this.finder.findAll()`.
Launch(id, force, via) ==
  /\ runs' = [abortPrevious(runs, abortController) EXCEPT ![id] =
               [NewFrame EXCEPT !.pc = "find", !.force = force,
                                !.viaEnsure = via, !.snap = utilities,
                                !.mid = {CurRoot(runs[r]) :
                                           r \in {x \in InFlight : InRoot(runs[x])}}]]
  /\ abortController' = id
  /\ nextRun' = id
  /\ quietFrom' = IF Idle THEN (IF quietFrom # 0 THEN quietFrom ELSE id) ELSE 0

\* A direct call: activation (false), refresh command, watcher, workspace
\* folder change (true).
extractAll(force, seq, limit) ==
  /\ nextRun < limit
  /\ seq => Idle
  /\ Launch(nextRun + 1, force, FALSE)
  /\ UNCHANGED <<fsVars, cacheVars, utilities, isExtracted, extractionPromise,
                 calls, clearPc, clears, envChanges, faults>>
  /\ lastGet' = NoGet
  /\ UNCHANGED <<allUtilitiesCache, restart>>
  /\ notified' = "none"

ExtractAll(force, seq, limit) ==
  /\ extractAll(force, seq, limit)
  /\ UNCHANGED sideVars

\* config.get('showWarnings', true): the setting at its default.
showWarnings == TRUE

\* handleNoVuetifyFound (lines 218-235): the message it shows.
handleNoVuetifyFound(show) == IF show THEN "notDetected" ELSE "none"

\* A filesystem call of VuetifyCache that fails and is not caught.
ioThrowsUncaught(ok) == ~ok

\* Whether a failed filesystem call inside VuetifyCache reaches the caller of
\* get, set, invalidate or clear: readFromDisk, writeToDisk, deleteFromDisk,
\* clearDiskCache and calculateFileHash each wrap their I/O in try/catch.
ioThrows(ok) == FALSE

\* A catch block that passes on the error of a run that is not cancelled.
catchRethrow(aborted) ==
  IF aborted THEN [rejects |-> FALSE, message |-> "none"]
  ELSE [rejects |-> TRUE, message |-> "none"]

\* The catch block of extractAll (lines 80-85) on an error thrown inside the
\* try: a cancelled run returns silently, any other shows the critical error
\* (handleCriticalError, lines 288-303) and returns.
catchError(aborted) ==
  IF aborted THEN [rejects |-> FALSE, message |-> "none"]
  ELSE [rejects |-> FALSE, message |-> "criticalError"]

\* findAll resolves (lines 48-62) or throws (catch at lines 80-85).
FindStep(r, ok) ==
  /\ runs[r].pc = "find"
  /\ LET f == [runs[r] EXCEPT !.insts = IF ok THEN findAll(installed, version)
                                        ELSE <<>>]
         caught == catchError(f.aborted)
         none == ok /\ ~f.aborted /\ Len(f.insts) = 0
         f2 == IF ~ok THEN [finished(f) EXCEPT !.rejected = caught.rejects]
               ELSE IF f.aborted \/ Len(f.insts) = 0
               THEN finished(f)
               ELSE beginRoot(f, 1, memoryCache)
     IN /\ Settle(r, f2)
        /\ isExtracted' = IF none THEN TRUE ELSE isExtracted
        /\ notified' = IF ~ok THEN caught.message
                       ELSE IF none THEN handleNoVuetifyFound(showWarnings)
                       ELSE "none"
  /\ Fault(ok)
  /\ UNCHANGED <<fsVars, cacheVars, utilities, nextRun, clearPc, clears,
                 envChanges>>
  /\ lastGet' = NoGet
  /\ UNCHANGED <<allUtilitiesCache, restart>>
  /\ UNCHANGED sideVars

\* cache.get resolves (lines 106-112): a hit is adopted into the Index.  An
\* error thrown by get would be caught at lines 73-75.
GetStep(r, readOk, hashOk, deleteOk) ==
  /\ runs[r].pc = "get"
  /\ LET f == runs[r]
         res == cacheGet(f.memEntry, memoryCache, disk, bytes, CurRoot(f),
                         CurVersion(f), readOk, hashOk, deleteOk)
         onDisk == readFromDisk(disk, CurRoot(f), CurVersion(f), TRUE)
         thrown == ioThrows(readOk) \/ ioThrows(hashOk) \/ ioThrows(deleteOk)
         hit == res.hit /\ ~thrown
         idx == IF hit
                THEN MapSet(utilities, CurRoot(f), res.from.utilities)
                ELSE utilities
         f2 == IF thrown THEN afterRoot(f, res.mem)
               ELSE IF hit
               THEN afterRoot(adopt(f, res.from.utilities), res.mem)
               ELSE [f EXCEPT !.pc = "parse", !.memEntry = NoEntry]
     IN \* only a call that is made can fail: the artifact is hashed when
        \* a disk entry was read, files are deleted when an entry was found
        \* and is not valid
        /\ ~hashOk => onDisk # NoEntry
        /\ ~deleteOk => ~res.hit /\ (f.memEntry # NoEntry \/ onDisk # NoEntry)
        /\ memoryCache' = res.mem
        /\ disk' = res.disk
        /\ utilities' = idx
        /\ isExtracted' = IF (hit \/ thrown) /\ loopEnded(f) THEN TRUE
                          ELSE isExtracted
        /\ lastGet' = IF hit
                       THEN [hit |-> TRUE, version |-> CurVersion(f),
                             from |-> res.from,
                             current |-> Sha256(bytes[CurRoot(f)])]
                       ELSE NoGet
        /\ notified' = IF thrown THEN "extractionError" ELSE "none"
        /\ Settle(r, f2)
  /\ Fault(readOk /\ hashOk /\ deleteOk)
  /\ UNCHANGED <<fsVars, nextRun, clearPc, clears, envChanges>>
  /\ UNCHANGED <<allUtilitiesCache, restart>>
  /\ UNCHANGED sideVars

\* parseCSS resolves or throws (line 117; catch at lines 73-75, where
\* handleExtractionError shows an error message).
ParseStep(r, ok) ==
  /\ runs[r].pc = "parse"
  /\ LET f == runs[r]
         f2 == IF ok
               THEN [f EXCEPT !.pc = "hash", !.parsed = ParseCSS(bytes[CurRoot(f)])]
               ELSE afterRoot(f, memoryCache)
     IN /\ Settle(r, f2)
        /\ isExtracted' = IF ~ok /\ loopEnded(f) THEN TRUE ELSE isExtracted
  /\ notified' = IF ok THEN "none" ELSE "extractionError"
  /\ Fault(ok)
  /\ UNCHANGED <<fsVars, cacheVars, utilities, nextRun, clearPc, clears,
                 envChanges>>
  /\ lastGet' = NoGet
  /\ UNCHANGED <<allUtilitiesCache, restart>>
  /\ UNCHANGED sideVars

\* cache.set: calculateFileHash resolves, the entry goes to memory and
\* writeToDisk is awaited (cache lines 106-118).
HashStep(r, ok) ==
  /\ runs[r].pc = "hash"
  /\ LET f == runs[r]
         e == newEntry(CurVersion(f), f.parsed,
                       calculateFileHash(bytes, CurRoot(f), ok))
         thrown == ioThrows(ok)
     IN /\ memoryCache' =
             IF thrown THEN memoryCache
             ELSE [k \in DOMAIN memoryCache \cup {CurRoot(f)} |->
                     IF k = CurRoot(f) THEN e ELSE memoryCache[k]]
        /\ Settle(r, IF thrown THEN afterRoot(f, memoryCache)
                     ELSE [f EXCEPT !.pc = "write", !.entry = e])
        /\ isExtracted' = IF thrown /\ loopEnded(f) THEN TRUE ELSE isExtracted
        /\ notified' = IF thrown THEN "extractionError" ELSE "none"
  /\ Fault(ok)
  /\ UNCHANGED <<fsVars, disk, utilities, nextRun, clearPc, clears, envChanges>>
  /\ lastGet' = NoGet
  /\ UNCHANGED <<allUtilitiesCache, restart>>
  /\ UNCHANGED sideVars

\* writeToDisk resolves; the records are stored in the Index and the memoized
\* array is dropped (lines 120-127).
WriteStep(r, ok) ==
  /\ runs[r].pc = "write"
  /\ LET f == runs[r]
         thrown == ioThrows(ok)
     IN /\ disk' = writeToDisk(disk, CurRoot(f), CurVersion(f), f.entry, ok)
        /\ utilities' = IF thrown THEN utilities
                        ELSE MapSet(utilities, CurRoot(f), f.parsed)
        /\ allUtilitiesCache' = IF thrown THEN allUtilitiesCache ELSE NullAll
        /\ isExtracted' = IF loopEnded(f) THEN TRUE ELSE isExtracted
        /\ notified' = IF thrown THEN "extractionError" ELSE "none"
        /\ Settle(r, IF thrown THEN afterRoot(f, memoryCache)
                     ELSE afterRoot(adopt(f, f.parsed), memoryCache))
  /\ Fault(ok)
  /\ UNCHANGED <<fsVars, memoryCache, nextRun, clearPc, clears, envChanges>>
  /\ lastGet' = NoGet
  /\ UNCHANGED restart
  /\ UNCHANGED sideVars

\* ensureExtracted without the extractionPromise test of line 173.
ensurePathNoCoalesce(extracted, promise) ==
  IF extracted THEN "return" ELSE "start"

\* ensureExtracted without the isExtracted test of line 168.
ensurePathNoFlag(extracted, promise) ==
  IF promise # 0 THEN "await" ELSE "start"

\* ensureExtracted lines 166-186: what the call does, given the two fields it
\* reads.
ensurePath(extracted, promise) ==
  IF extracted THEN "return"
  ELSE IF promise # 0 THEN "await"
  ELSE "start"

\* A call of ensureExtracted (hover or completion provider).  inflight is
\* history: the runs in flight when the call was made.
EnsureExtracted(limit) ==
  /\ Len(calls) < MaxCalls
  /\ LET path == ensurePath(isExtracted, extractionPromise)
         call == [awaits |-> 0, started |-> FALSE, resolved |-> TRUE,
                  inflight |-> InFlight]
     IN CASE path = "return" ->
               /\ calls' = Append(calls, call)
               /\ UNCHANGED <<runs, nextRun, abortController, extractionPromise,
                              quietFrom>>
          [] path = "await" ->
               /\ calls' = Append(calls, [call EXCEPT !.awaits = extractionPromise,
                                                      !.resolved = FALSE])
               /\ UNCHANGED <<runs, nextRun, abortController, extractionPromise,
                              quietFrom>>
          [] path = "start" ->
               /\ nextRun < limit
               /\ Launch(nextRun + 1, FALSE, TRUE)
               /\ extractionPromise' = nextRun + 1
               /\ calls' = Append(calls, [call EXCEPT !.awaits = nextRun + 1,
                                                      !.started = TRUE,
                                                      !.resolved = FALSE])
  /\ UNCHANGED <<fsVars, cacheVars, utilities, isExtracted, clearPc, clears,
                 envChanges, faults>>
  /\ lastGet' = NoGet
  /\ UNCHANGED <<allUtilitiesCache, restart>>
  /\ notified' = "none"
  /\ UNCHANGED sideVars

\* clear() up to `await this.cache.clear()`, whose memoryCache.clear() runs
\* before clearDiskCache is awaited (extractor lines 192-197, cache 167-170).
clear(seq) ==
  /\ clears < MaxClears
  /\ clearPc = "idle"
  /\ seq => Idle
  /\ utilities' = <<>>
  /\ isExtracted' = FALSE
  /\ extractionPromise' = 0
  /\ memoryCache' = [k \in {} |-> NoEntry]
  /\ clearPc' = "disk"
  /\ clears' = clears + 1
  /\ quietFrom' = 0
  /\ allUtilitiesCache' = NullAll
  /\ UNCHANGED <<fsVars, disk, abortController, runs, nextRun, calls,
                 envChanges, faults>>
  /\ lastGet' = NoGet
  /\ UNCHANGED restart
  /\ notified' = "none"

Clear(seq) ==
  /\ clear(seq)
  /\ UNCHANGED sideVars

\* clearDiskCache resolves and clear() returns; an error thrown by it would
\* reject the promise of clear().
ClearStep(ok) ==
  /\ clearPc = "disk"
  /\ disk' = clearDiskCache(disk, ok)
  /\ clearPc' = "idle"
  /\ Fault(ok)
  /\ UNCHANGED <<fsVars, memoryCache, utilities, isExtracted, extractionPromise,
                 abortController, runs, nextRun, calls, clears, envChanges>>
  /\ lastGet' = NoGet
  /\ UNCHANGED <<allUtilitiesCache, restart>>
  /\ notified' = IF ioThrows(ok) THEN "rejected" ELSE "none"
  /\ UNCHANGED sideVars

\* getAllUtilities lines 155-158: the arrays of this.utilities.values(), in
\* the Map's order, pushed into one array.
RECURSIVE Flatten(_)
Flatten(idx) ==
  IF idx = <<>> THEN <<>> ELSE idx[1][2] \o Flatten(Tail(idx))

\* getAllUtilities: what the call returns.
getAllUtilities(memo, idx) == IF memo # NullAll THEN memo[1] ELSE Flatten(idx)

\* A call of getAllUtilities (public API, extension.ts line 83) that finds no
\* memoized array and stores one; a call that finds one changes nothing.
GetAllUtilities ==
  /\ allUtilitiesCache = NullAll
  /\ allUtilitiesCache' = <<getAllUtilities(allUtilitiesCache, utilities)>>
  /\ UNCHANGED <<fsVars, cacheVars, utilities, isExtracted, extractionPromise,
                 abortController, runs, nextRun, calls, clearPc, clears,
                 envChanges, faults, quietFrom, restart>>
  /\ lastGet' = NoGet
  /\ notified' = "none"
  /\ UNCHANGED sideVars

\* dispose() (lines 204-213), when it has something to abort or to drop.
Dispose ==
  /\ abortController # 0 \/ utilities # <<>>
  /\ runs' = abortPrevious(runs, abortController)
  /\ abortController' = 0
  /\ utilities' = <<>>
  /\ quietFrom' = 0
  /\ UNCHANGED <<fsVars, cacheVars, isExtracted, extractionPromise, nextRun,
                 calls, clearPc, clears, envChanges, faults, allUtilitiesCache,
                 restart>>
  /\ lastGet' = NoGet
  /\ notified' = "none"
  /\ UNCHANGED sideVars

\* The extension host is restarted while nothing is in flight: the files
\* under storageUri stay, activate() builds a new VuetifyExtractor and
\* VuetifyCache and calls extractAll() (extension.ts lines 24, 65).
Restart(limit) ==
  /\ restart.count < MaxRestarts
  /\ Idle
  /\ nextRun < limit
  /\ restart' = [count |-> restart.count + 1, at |-> nextRun,
                 index |-> utilities]
  /\ memoryCache' = [k \in {} |-> NoEntry]
  /\ utilities' = <<>>
  /\ isExtracted' = FALSE
  /\ extractionPromise' = 0
  /\ allUtilitiesCache' = NullAll
  /\ runs' = [runs EXCEPT ![nextRun + 1] = [NewFrame EXCEPT !.pc = "find"]]
  /\ abortController' = nextRun + 1
  /\ nextRun' = nextRun + 1
  /\ quietFrom' = IF quietFrom # 0 THEN quietFrom ELSE nextRun + 1
  /\ UNCHANGED <<fsVars, disk, calls, clearPc, clears, envChanges, faults>>
  /\ lastGet' = NoGet
  /\ notified' = "none"
  /\ UNCHANGED sideVars

\* -------------------------------------------------------------- filesystem
\* The artifact of a root is rewritten with other bytes.
ChangeBytes(r, limit) ==
  /\ envChanges < limit
  /\ installed[r]
  /\ bytes' = [bytes EXCEPT ![r] = CHOOSE c \in Contents : c # bytes[r]]
  /\ envChanges' = envChanges + 1
  /\ quietFrom' = 0
  /\ UNCHANGED <<installed, version, cacheVars, utilities, isExtracted,
                 extractionPromise, abortController, runs, nextRun, calls,
                 clearPc, clears, faults>>
  /\ lastGet' = NoGet
  /\ UNCHANGED <<allUtilitiesCache, restart>>
  /\ notified' = "none"
  /\ UNCHANGED sideVars

\* The package of a root is installed, removed or replaced by another version.
Reinstall(r, inst, ver, limit) ==
  /\ envChanges < limit
  /\ <<inst, ver>> # <<installed[r], version[r]>>
  /\ installed' = [installed EXCEPT ![r] = inst]
  /\ version' = [version EXCEPT ![r] = ver]
  /\ envChanges' = envChanges + 1
  /\ quietFrom' = 0
  /\ UNCHANGED <<bytes, cacheVars, utilities, isExtracted, extractionPromise,
                 abortController, runs, nextRun, calls, clearPc, clears, faults>>
  /\ lastGet' = NoGet
  /\ UNCHANGED <<allUtilitiesCache, restart>>
  /\ notified' = "none"
  /\ UNCHANGED sideVars

\* ------------------------------------------------------------ VuetifyFinder
\* The locations findInMonorepo probes for a root, in the order of
\* searchPaths: own node_modules, parent node_modules, a monorepo
\* subdirectory, the pnpm store, a workspace member of package.json.
Strategies == 1..5

\* What lies at a location.  absent: nothing; denied: fs.access fails on it;
\* unlisted: a package the strategy cannot enumerate (readdir fails,
\* package.json of the root does not parse); noManifest: a directory whose
\* package.json cannot be read or parsed; noCss: a manifest and none of the
\* three CSS files; confirmed: a manifest and a CSS file.
Kinds == {"absent", "denied", "unlisted", "noManifest", "noCss", "confirmed"}

\* The result of an awaited call: a value, or an exception.
Ok(v) == [thrown |-> FALSE, value |-> v]
Thrown == [thrown |-> TRUE, value |-> 0]

\* A pathExists that lets the error of fs.access through.
pathExistsUncaught(kind) ==
  IF kind = "denied" THEN Thrown ELSE Ok(IF kind = "absent" THEN 0 ELSE 1)

\* pathExists (lines 520-530): 1 when fs.access succeeds, 0 when it throws.
pathExists(kind) ==
  Ok(IF kind \in {"absent", "denied"} THEN 0 ELSE 1)

\* findMonorepoSubdirectories, findPnpmPaths, findWorkspacePaths (lines
\* 367-458): the strategy's path is among searchPaths when its enumeration
\* succeeds; an error of readdir, readFile or JSON.parse is caught there and
\* yields no path.  The first two paths are always there (lines 343-345).
inSearchPaths(i, kind) == i <= 2 \/ kind # "unlisted"

\* createInstallation (lines 463-494): the location when the manifest is
\* read and findCssFile finds a file, null (0) otherwise.
createInstallation(i, kind) == IF kind = "confirmed" THEN i ELSE 0

\* findInMonorepo lines 354-361: the first path that exists decides.
RECURSIVE findInMonorepo(_, _)
findInMonorepo(cands, i) ==
  IF i > Len(cands) THEN Ok(0)
  ELSE IF ~inSearchPaths(i, cands[i]) THEN findInMonorepo(cands, i + 1)
  ELSE LET e == pathExists(cands[i])
       IN IF e.thrown THEN Thrown
          ELSE IF e.value = 1
               THEN Ok(createInstallation(i, cands[i]))
               ELSE findInMonorepo(cands, i + 1)

\* findAll lines 303-316: per folder, an installation is recorded, null is
\* skipped, an exception is caught and logged.  root -> location, 0 = none.
findInWorkspaces(t) ==
  [r \in Roots |->
     LET x == findInMonorepo(t[r], 1)
     IN IF x.thrown THEN 0 ELSE x.value]

\* The trees examined: every combination for the first root, three
\* layouts for the second.
Layouts ==
  {c \in [Strategies -> Kinds] : c[1] # "unlisted" /\ c[2] # "unlisted"}
FewLayouts ==
  {[i \in Strategies |-> "absent"],
   [i \in Strategies |-> IF i = 1 THEN "confirmed" ELSE "absent"],
   [i \in Strategies |-> IF i = 1 THEN "denied"
                         ELSE IF i = 4 THEN "confirmed" ELSE "absent"]}
Trees == {t \in [Roots -> Layouts] : t[2] \in FewLayouts}

\* The tree of the two-folder workspace of Init.
PlainTree ==
  [r \in Roots |-> [i \in Strategies |->
                      IF r = 1 /\ i = 1 THEN "confirmed" ELSE "absent"]]

\* The result of a call that has not been made.
NotRun == <<>>

\* finder.findAll() on the tree.
FinderFindAll ==
  /\ located = NotRun
  /\ located' = findInWorkspaces(tree)
  /\ UNCHANGED tree
  /\ UNCHANGED <<fsVars, cacheVars, utilities, isExtracted, extractionPromise,
                 abortController, runs, nextRun, calls, clearPc, clears,
                 envChanges, faults, quietFrom, lastGet, allUtilitiesCache,
                 notified, restart, watchVars, parserVars>>

\* ---------------------------------------------------------------- CSSParser
MAX_CSS_FILE_SIZE_MB == 50
MAX_CSS_FILE_SIZE_BYTES == MAX_CSS_FILE_SIZE_MB * 1024 * 1024

UTILITY_PREFIXES ==
  {<<"m", "a", "-">>,
   <<"m", "t", "-">>,
   <<"m", "r", "-">>,
   <<"m", "b", "-">>,
   <<"m", "l", "-">>,
   <<"m", "s", "-">>,
   <<"m", "e", "-">>,
   <<"m", "x", "-">>,
   <<"m", "y", "-">>,
   <<"p", "a", "-">>,
   <<"p", "t", "-">>,
   <<"p", "r", "-">>,
   <<"p", "b", "-">>,
   <<"p", "l", "-">>,
   <<"p", "s", "-">>,
   <<"p", "e", "-">>,
   <<"p", "x", "-">>,
   <<"p", "y", "-">>,
   <<"d", "-">>,
   <<"f", "l", "e", "x", "-">>,
   <<"a", "l", "i", "g", "n", "-">>,
   <<"j", "u", "s", "t", "i", "f", "y", "-">>,
   <<"a", "l", "i", "g", "n", "-", "s", "e", "l", "f", "-">>,
   <<"a", "l", "i", "g", "n", "-", "c", "o", "n", "t", "e", "n", "t", "-">>,
   <<"o", "r", "d", "e", "r", "-">>,
   <<"t", "e", "x", "t", "-">>,
   <<"f", "o", "n", "t", "-">>,
   <<"b", "g", "-">>,
   <<"e", "l", "e", "v", "a", "t", "i", "o", "n", "-">>,
   <<"r", "o", "u", "n", "d", "e", "d">>,
   <<"b", "o", "r", "d", "e", "r", "-">>,
   <<"w", "-">>,
   <<"h", "-">>,
   <<"m", "i", "n", "-", "w", "-">>,
   <<"m", "a", "x", "-", "w", "-">>,
   <<"m", "i", "n", "-", "h", "-">>,
   <<"m", "a", "x", "-", "h", "-">>,
   <<"p", "o", "s", "i", "t", "i", "o", "n", "-">>,
   <<"t", "o", "p", "-">>,
   <<"r", "i", "g", "h", "t", "-">>,
   <<"b", "o", "t", "t", "o", "m", "-">>,
   <<"l", "e", "f", "t", "-">>,
   <<"g", "a", "-">>,
   <<"g", "r", "-">>,
   <<"g", "c", "-">>,
   <<"o", "v", "e", "r", "f", "l", "o", "w", "-">>,
   <<"f", "l", "o", "a", "t", "-">>,
   <<"o", "p", "a", "c", "i", "t", "y", "-">>}

\* String.prototype.includes on sequences of characters.
Includes(s, sub) ==
  \E i \in 1..(Len(s) - Len(sub) + 1) : SubSeq(s, i, i + Len(sub) - 1) = sub

\* selector.split(':')[0]: the text before the first colon.
RECURSIVE BeforeColon(_)
BeforeColon(s) ==
  IF s = <<>> \/ Head(s) = ":" THEN <<>> ELSE <<Head(s)>> \o BeforeColon(Tail(s))

\* The preludes of the rules examined, as css-tree selector nodes.
Sel_ma2 ==
  <<[type |-> "ClassSelector", name |-> <<"m", "a", "-", "2">>]>>
Sel_foo_bar ==
  <<[type |-> "ClassSelector", name |-> <<"f", "o", "o">>],
   [type |-> "Combinator", name |-> <<" ">>],
   [type |-> "ClassSelector", name |-> <<"b", "a", "r">>]>>
Sel_vbtn_before ==
  <<[type |-> "ClassSelector", name |-> <<"v", "-", "b", "t", "n">>],
   [type |-> "PseudoElementSelector", name |-> <<"b", "e", "f", "o", "r", "e">>]>>
Sel_attr ==
  <<[type |-> "AttributeSelector", name |-> <<"d", "a", "t", "a", "-", "x">>]>>
Sel_ma2_hover ==
  <<[type |-> "ClassSelector", name |-> <<"m", "a", "-", "2">>],
   [type |-> "PseudoClassSelector", name |-> <<"h", "o", "v", "e", "r">>]>>
Sel_pa2 ==
  <<[type |-> "ClassSelector", name |-> <<"p", "a", "-", "2">>]>>
Sel_ma2_pa2 ==
  <<[type |-> "ClassSelector", name |-> <<"m", "a", "-", "2">>],
   [type |-> "ClassSelector", name |-> <<"p", "a", "-", "2">>]>>
Sel_ma2_child ==
  <<[type |-> "ClassSelector", name |-> <<"m", "a", "-", "2">>],
   [type |-> "Combinator", name |-> <<">">>],
   [type |-> "ClassSelector", name |-> <<"p", "a", "-", "2">>]>>
Sel_ma2_next ==
  <<[type |-> "ClassSelector", name |-> <<"m", "a", "-", "2">>],
   [type |-> "Combinator", name |-> <<"+">>],
   [type |-> "ClassSelector", name |-> <<"p", "a", "-", "2">>]>>
Sel_type ==
  <<[type |-> "TypeSelector", name |-> <<"d", "-", "x">>]>>
Sel_xa2 ==
  <<[type |-> "ClassSelector", name |-> <<"x", "a", "-", "2">>]>>
Sel_list ==
  <<[type |-> "ClassSelector", name |-> <<"p", "a", "-", "2">>],
   [type |-> "Operator", name |-> <<",">>],
   [type |-> "ClassSelector", name |-> <<"m", "a", "-", "2">>]>>

Preludes ==
  {Sel_ma2, Sel_foo_bar, Sel_vbtn_before, Sel_attr, Sel_ma2_hover, Sel_pa2, Sel_ma2_pa2,
   Sel_ma2_child, Sel_ma2_next, Sel_type, Sel_xa2, Sel_list}

\* The declarations of a block, in order.
Blocks ==
  {<<[property |-> "margin", value |-> "8px"]>>,
   <<[property |-> "margin", value |-> "16px"],
     [property |-> "margin", value |-> "4px"]>>}

Rules == [prelude : Preludes, block : Blocks]

\* More class names, each the prelude of a rule of its own: the eighteen
\* spacing classes and one or more names for every other prefix.
ClassNames ==
  {<<"m", "a", "-", "4">>,
   <<"m", "t", "-", "4">>,
   <<"m", "r", "-", "4">>,
   <<"m", "b", "-", "4">>,
   <<"m", "l", "-", "4">>,
   <<"m", "s", "-", "4">>,
   <<"m", "e", "-", "4">>,
   <<"m", "x", "-", "4">>,
   <<"m", "y", "-", "4">>,
   <<"p", "a", "-", "4">>,
   <<"p", "t", "-", "4">>,
   <<"p", "r", "-", "4">>,
   <<"p", "b", "-", "4">>,
   <<"p", "l", "-", "4">>,
   <<"p", "s", "-", "4">>,
   <<"p", "e", "-", "4">>,
   <<"p", "x", "-", "4">>,
   <<"p", "y", "-", "4">>,
   <<"d", "-", "f", "l", "e", "x">>,
   <<"f", "l", "e", "x", "-", "c", "o", "l", "u", "m", "n">>,
   <<"a", "l", "i", "g", "n", "-", "c", "e", "n", "t", "e", "r">>,
   <<"j", "u", "s", "t", "i", "f", "y", "-", "c", "e", "n", "t", "e", "r">>,
   <<"o", "r", "d", "e", "r", "-", "1">>,
   <<"t", "e", "x", "t", "-", "h", "1">>,
   <<"f", "o", "n", "t", "-", "b", "o", "l", "d">>,
   <<"b", "g", "-", "r", "e", "d">>,
   <<"e", "l", "e", "v", "a", "t", "i", "o", "n", "-", "8">>,
   <<"r", "o", "u", "n", "d", "e", "d", "-", "l", "g">>,
   <<"b", "o", "r", "d", "e", "r", "-", "s", "m">>,
   <<"w", "-", "1", "0", "0">>,
   <<"h", "-", "1", "0", "0">>,
   <<"m", "i", "n", "-", "w", "-", "0">>,
   <<"m", "a", "x", "-", "h", "-", "0">>,
   <<"p", "o", "s", "i", "t", "i", "o", "n", "-", "r", "e", "l", "a", "t", "i", "v", "e">>,
   <<"t", "o", "p", "-", "0">>,
   <<"r", "i", "g", "h", "t", "-", "0">>,
   <<"b", "o", "t", "t", "o", "m", "-", "0">>,
   <<"l", "e", "f", "t", "-", "0">>,
   <<"g", "a", "-", "2">>,
   <<"g", "r", "-", "2">>,
   <<"g", "c", "-", "2">>,
   <<"o", "v", "e", "r", "f", "l", "o", "w", "-", "h", "i", "d", "d", "e", "n">>,
   <<"f", "l", "o", "a", "t", "-", "l", "e", "f", "t">>,
   <<"o", "p", "a", "c", "i", "t", "y", "-", "5", "0">>}

\* The rules examined one to a sheet: a rule for every class name and the
\* rules `.ma-2.v-btn` and `.text-h1,.v-card`, each with no declaration, with
\* one and with two.
NamedRules ==
  [prelude :
     {<<[type |-> "ClassSelector", name |-> name]>> : name \in ClassNames}
     \cup {<<[type |-> "ClassSelector", name |-> <<"m", "a", "-", "2">>],
             [type |-> "ClassSelector", name |-> <<"v", "-", "b", "t", "n">>]>>,
           <<[type |-> "ClassSelector",
              name |-> <<"t", "e", "x", "t", "-", "h", "1">>],
             [type |-> "Operator", name |-> <<",">>],
             [type |-> "ClassSelector",
              name |-> <<"v", "-", "c", "a", "r", "d">>]>>},
   block :
     {<<>>,
      <<[property |-> "padding", value |-> "16px"]>>,
      <<[property |-> "display", value |-> "flex"],
        [property |-> "padding", value |-> "16px"]>>}]

\* csstree.generate of one selector node.
generateNode(n) ==
  CASE n.type = "ClassSelector" -> <<".">> \o n.name
    [] n.type = "PseudoClassSelector" -> <<":">> \o n.name
    [] n.type = "PseudoElementSelector" -> <<":", ":">> \o n.name
    [] n.type = "AttributeSelector" -> <<"[">> \o n.name \o <<"]">>
    [] OTHER -> n.name

\* csstree.generate(rule.prelude): the selector text.
RECURSIVE generate(_)
generate(prelude) ==
  IF prelude = <<>> THEN <<>>
  ELSE generateNode(Head(prelude)) \o generate(Tail(prelude))

\* A filter that only asks for a leading class.
isClassSelector(selector) == StartsWith(selector, <<".">>)

\* isUtilitySelector (lines 128-149).
isUtilitySelector(selector) ==
  /\ ~(Includes(selector, <<" ">>) \/ Includes(selector, <<">">>)
       \/ Includes(selector, <<"+">>))
  /\ ~(Includes(selector, <<"[">>) \/ Includes(selector, <<":", ":">>))
  /\ StartsWith(selector, <<".">>)
  /\ LET baseClassName == Tail(BeforeColon(selector))
     IN \E prefix \in UTILITY_PREFIXES : StartsWith(baseClassName, prefix)

\* [a-zA-Z0-9_-]: the lower-case letters, the digits, `_` and `-` (no name
\* examined has an upper-case letter).
NameChars ==
  {"a", "b", "c", "d", "e", "f", "g", "h", "i", "j", "k", "l", "m", "n", "o",
   "p", "q", "r", "s", "t", "u", "v", "w", "x", "y", "z",
   "0", "1", "2", "3", "4", "5", "6", "7", "8", "9", "_", "-"}

\* The end of the longest run of name characters of s that starts at i.
RECURSIVE RunEnd(_, _)
RunEnd(s, i) ==
  IF i < Len(s) /\ s[i + 1] \in NameChars THEN RunEnd(s, i + 1) ELSE i

\* extractClassNames (lines 154-164): the matches of /\.([a-zA-Z0-9_-]+)/g
\* from position i on.
RECURSIVE extractClassNames(_, _)
extractClassNames(s, i) ==
  IF i > Len(s) THEN <<>>
  ELSE IF s[i] = "." /\ i < Len(s) /\ s[i + 1] \in NameChars
       THEN <<SubSeq(s, i + 1, RunEnd(s, i + 1))>>
            \o extractClassNames(s, RunEnd(s, i + 1) + 1)
       ELSE extractClassNames(s, i + 1)

\* The properties object built at lines 94-100: a later declaration of a
\* property replaces the earlier one.
properties(block) ==
  [p \in {block[i].property : i \in DOMAIN block} |->
     LET last == CHOOSE i \in DOMAIN block :
                   /\ block[i].property = p
                   /\ \A j \in DOMAIN block : block[j].property = p => j <= i
     IN block[last].value]

\* A set of seen names that is never consulted.
seenHasNever(seen, className) == FALSE

\* seen.has(className) (line 107).
seenHas(seen, className) == className \in seen

\* A categorization whose display test looks for `d-` anywhere in the name.
categorizeByInclusion(className) ==
  IF /\ Len(className) >= 3
     /\ className[1] \in {"m", "p"}
     /\ className[2] \in {"a", "t", "b", "l", "r", "s", "x", "y", "e"}
     /\ className[3] = "-"
  THEN "spacing"
  ELSE IF Includes(className, <<"d", "-">>)
  THEN "display"
  ELSE IF \/ StartsWith(className, <<"f", "l", "e", "x", "-">>)
          \/ StartsWith(className, <<"a", "l", "i", "g", "n", "-">>)
          \/ StartsWith(className, <<"j", "u", "s", "t", "i", "f", "y", "-">>)
          \/ StartsWith(className, <<"o", "r", "d", "e", "r", "-">>)
  THEN "flexbox"
  ELSE IF \/ StartsWith(className, <<"t", "e", "x", "t", "-">>)
          \/ StartsWith(className, <<"f", "o", "n", "t", "-">>)
  THEN "typography"
  ELSE IF StartsWith(className, <<"b", "g", "-">>)
  THEN "background"
  ELSE IF StartsWith(className, <<"e", "l", "e", "v", "a", "t", "i", "o", "n", "-">>)
  THEN "elevation"
  ELSE IF \/ StartsWith(className, <<"r", "o", "u", "n", "d", "e", "d">>)
          \/ StartsWith(className, <<"b", "o", "r", "d", "e", "r", "-">>)
  THEN "border"
  ELSE IF \/ StartsWith(className, <<"w", "-">>)
          \/ StartsWith(className, <<"h", "-">>)
          \/ StartsWith(className, <<"m", "i", "n", "-">>)
          \/ StartsWith(className, <<"m", "a", "x", "-">>)
  THEN "sizing"
  ELSE IF \/ StartsWith(className, <<"p", "o", "s", "i", "t", "i", "o", "n", "-">>)
          \/ StartsWith(className, <<"t", "o", "p", "-">>)
          \/ StartsWith(className, <<"r", "i", "g", "h", "t", "-">>)
          \/ StartsWith(className, <<"b", "o", "t", "t", "o", "m", "-">>)
          \/ StartsWith(className, <<"l", "e", "f", "t", "-">>)
  THEN "position"
  ELSE IF /\ Len(className) >= 3
          /\ className[1] = "g"
          /\ className[2] \in {"a", "r", "c"}
          /\ className[3] = "-"
  THEN "gap"
  ELSE "other"

\* categorizeUtility (lines 169-202).
categorizeUtility(className) ==
  IF /\ Len(className) >= 3
     /\ className[1] \in {"m", "p"}
     /\ className[2] \in {"a", "t", "b", "l", "r", "s", "x", "y", "e"}
     /\ className[3] = "-"
  THEN "spacing"
  ELSE IF StartsWith(className, <<"d", "-">>)
  THEN "display"
  ELSE IF \/ StartsWith(className, <<"f", "l", "e", "x", "-">>)
          \/ StartsWith(className, <<"a", "l", "i", "g", "n", "-">>)
          \/ StartsWith(className, <<"j", "u", "s", "t", "i", "f", "y", "-">>)
          \/ StartsWith(className, <<"o", "r", "d", "e", "r", "-">>)
  THEN "flexbox"
  ELSE IF \/ StartsWith(className, <<"t", "e", "x", "t", "-">>)
          \/ StartsWith(className, <<"f", "o", "n", "t", "-">>)
  THEN "typography"
  ELSE IF StartsWith(className, <<"b", "g", "-">>)
  THEN "background"
  ELSE IF StartsWith(className, <<"e", "l", "e", "v", "a", "t", "i", "o", "n", "-">>)
  THEN "elevation"
  ELSE IF \/ StartsWith(className, <<"r", "o", "u", "n", "d", "e", "d">>)
          \/ StartsWith(className, <<"b", "o", "r", "d", "e", "r", "-">>)
  THEN "border"
  ELSE IF \/ StartsWith(className, <<"w", "-">>)
          \/ StartsWith(className, <<"h", "-">>)
          \/ StartsWith(className, <<"m", "i", "n", "-">>)
          \/ StartsWith(className, <<"m", "a", "x", "-">>)
  THEN "sizing"
  ELSE IF \/ StartsWith(className, <<"p", "o", "s", "i", "t", "i", "o", "n", "-">>)
          \/ StartsWith(className, <<"t", "o", "p", "-">>)
          \/ StartsWith(className, <<"r", "i", "g", "h", "t", "-">>)
          \/ StartsWith(className, <<"b", "o", "t", "t", "o", "m", "-">>)
          \/ StartsWith(className, <<"l", "e", "f", "t", "-">>)
  THEN "position"
  ELSE IF /\ Len(className) >= 3
          /\ className[1] = "g"
          /\ className[2] \in {"a", "r", "c"}
          /\ className[3] = "-"
  THEN "gap"
  ELSE "other"

\* className.match(/m[ap]X-/) for a letter X (lines 261-269): the pattern is
\* not anchored, it matches anywhere in the name.
matchesDirection(className, letter) ==
  \E i \in 1..(Len(className) - 3) :
    /\ className[i] = "m"
    /\ className[i + 1] \in {"a", "p"}
    /\ className[i + 2] = letter
    /\ className[i + 3] = "-"

\* getSpacingDirection (lines 260-271).
getSpacingDirection(className) ==
  IF matchesDirection(className, "a") THEN "on all sides"
  ELSE IF matchesDirection(className, "t") THEN "on top"
  ELSE IF matchesDirection(className, "r") THEN "on right"
  ELSE IF matchesDirection(className, "b") THEN "on bottom"
  ELSE IF matchesDirection(className, "l") THEN "on left"
  ELSE IF matchesDirection(className, "s") THEN "on start (inline-start)"
  ELSE IF matchesDirection(className, "e") THEN "on end (inline-end)"
  ELSE IF matchesDirection(className, "x") THEN "horizontally"
  ELSE IF matchesDirection(className, "y") THEN "vertically"
  ELSE ""

\* The keys of the properties object, in insertion order: the order in which
\* the properties are first declared in the block.
RECURSIVE keys(_, _)
keys(block, had) ==
  IF block = <<>> THEN <<>>
  ELSE IF Head(block).property \in had THEN keys(Tail(block), had)
       ELSE <<Head(block).property>>
            \o keys(Tail(block), had \cup {Head(block).property})

\* Object.entries(properties).map(([k, v]) => `${k}: ${v}`).join(', ').
RECURSIVE joinEntries(_, _)
joinEntries(ks, props) ==
  IF ks = <<>> THEN ""
  ELSE Head(ks) \o ": " \o props[Head(ks)]
       \o (IF Len(ks) > 1 THEN ", " \o joinEntries(Tail(ks), props) ELSE "")

\* properties[key] || ''.
orEmpty(props, key) == IF key \in DOMAIN props THEN props[key] ELSE ""

\* generateDescription (lines 207-255): the text, as the parts of the template
\* literal that builds it.
generateDescription(className, block) ==
  LET category == categorizeUtility(className)
      props == properties(block)
      ks == keys(block, {})
  IN CASE category = "spacing" ->
            LET propValue == IF ks = <<>> THEN "" ELSE props[ks[1]]
                direction == getSpacingDirection(className)
                type == IF StartsWith(className, <<"m">>) THEN "margin"
                        ELSE "padding"
            IN <<"Apply ", type, " ", propValue, " ", direction>>
       [] category = "display" ->
            <<"Set display: ", orEmpty(props, "display")>>
       [] category = "flexbox" ->
            IF StartsWith(className, <<"f", "l", "e", "x", "-">>)
            THEN <<"Flex property: ", joinEntries(ks, props)>>
            ELSE IF StartsWith(className, <<"j", "u", "s", "t", "i", "f", "y", "-">>)
            THEN <<"Justify content: ", orEmpty(props, "justify-content")>>
            ELSE IF StartsWith(className, <<"a", "l", "i", "g", "n", "-">>)
            THEN <<"Align items: ",
                   IF orEmpty(props, "align-items") # ""
                   THEN props["align-items"]
                   ELSE orEmpty(props, "align-content")>>
            ELSE <<"Flexbox utility">>
       [] category = "typography" ->
            IF StartsWith(className, <<"t", "e", "x", "t", "-">>)
            THEN <<"Text utility: ", joinEntries(ks, props)>>
            ELSE <<"Typography utility">>
       [] category = "elevation" -> <<"Material elevation shadow">>
       [] OTHER ->
            IF ks # <<>> THEN <<ks[1], ": ", props[ks[1]]>>
            ELSE <<"Vuetify utility class">>

\* The loop of lines 105-122 over the class names of one rule.
RECURSIVE pushNames(_, _, _, _)
pushNames(names, selector, block, acc) ==
  IF names = <<>> THEN acc
  ELSE IF seenHas(acc.seen, Head(names))
       THEN pushNames(Tail(names), selector, block, acc)
       ELSE pushNames(Tail(names), selector, block,
                      [utilities |-> Append(acc.utilities,
                                            [name |-> Head(names),
                                             selector |-> selector,
                                             properties |-> properties(block),
                                             category |->
                                               categorizeUtility(Head(names)),
                                             description |->
                                               generateDescription(Head(names),
                                                                   block)]),
                       seen |-> acc.seen \cup {Head(names)}])

\* extractUtilitiesFromRule (lines 82-123).
extractUtilitiesFromRule(rule, acc) ==
  LET selector == generate(rule.prelude)
  IN IF ~isUtilitySelector(selector) THEN acc
     ELSE pushNames(extractClassNames(selector, 1), selector, rule.block, acc)

\* extractUtilities (lines 65-77): the rules are visited in document order.
RECURSIVE walk(_, _)
walk(rules, acc) ==
  IF rules = <<>> THEN acc
  ELSE walk(Tail(rules), extractUtilitiesFromRule(Head(rules), acc))

extractUtilities(rules) == walk(rules, [utilities |-> <<>>, seen |-> {}]).utilities

\* A ceiling that rejects the ceiling itself.
tooLargeInclusive(size) == size >= MAX_CSS_FILE_SIZE_BYTES

\* parseCSS line 30.
tooLarge(size) == size > MAX_CSS_FILE_SIZE_BYTES

\* parseCSS (lines 19-60) on an artifact of the given size and rules: what it
\* throws, whether it read the file and ran the grammar parser, what it
\* returned.
parseCSS(artifact) ==
  IF tooLarge(artifact.size)
  THEN [ran |-> TRUE, error |-> "tooLarge", read |-> FALSE, grammar |-> FALSE,
        utilities |-> <<>>]
  ELSE [ran |-> TRUE, error |-> "none", read |-> TRUE, grammar |-> TRUE,
        utilities |-> extractUtilities(artifact.rules)]

NotParsed ==
  [ran |-> FALSE, error |-> "none", read |-> FALSE, grammar |-> FALSE,
   utilities |-> <<>>]

\* The artifacts examined: every sheet of up to MaxRules rules, the sheet of
\* four rules `.ma-2`, `.foo .bar`, `.v-btn::before`, `[data-x]` and every
\* sheet of one named rule, each of an ordinary size; and one sheet at each
\* size around the ceiling.
SheetsOf(n) == [1..n -> Rules]
FourRules ==
  [i \in 1..4 |->
     [prelude |-> <<Sel_ma2, Sel_foo_bar, Sel_vbtn_before, Sel_attr>>[i],
      block |-> <<[property |-> "margin", value |-> "8px"]>>]]
Sizes ==
  {0, MAX_CSS_FILE_SIZE_BYTES - 1, MAX_CSS_FILE_SIZE_BYTES,
   MAX_CSS_FILE_SIZE_BYTES + 1, (MAX_CSS_FILE_SIZE_MB + 1) * 1024 * 1024}
Artifacts ==
  [size : {1024},
   rules : UNION {SheetsOf(n) : n \in 0..MaxRules} \cup {FourRules}
           \cup {<<rule>> : rule \in NamedRules}]
  \cup [size : Sizes, rules : {FourRules}]

PlainSheet == [size |-> 0, rules |-> <<>>]

\* parser.parseCSS(path) on the artifact.
ParseSheet ==
  /\ ~parseResult.ran
  /\ parseResult' = parseCSS(sheet)
  /\ UNCHANGED sheet
  /\ UNCHANGED <<fsVars, cacheVars, utilities, isExtracted, extractionPromise,
                 abortController, runs, nextRun, calls, clearPc, clears,
                 envChanges, faults, quietFrom, lastGet, allUtilitiesCache,
                 notified, restart, watchVars, finderVars>>

\* ----------------------------------------------------------- VuetifyWatcher
FILE_WATCHER_DEBOUNCE_MS == 1000

\* The clock advances by one of these amounts (ms).
TickSizes == {500, 1000}

\* What readFile and JSON.parse give for a package.json: unreadable, not
\* JSON, the JSON value null, or an object whose dependencies.vuetify and
\* devDependencies.vuetify are undefined, the empty string or a range.
DepValues == {"undefined", "", "^3.1.0"}
Manifests ==
  [readable : {FALSE}, json : {"object"},
   dependencies : {"undefined"}, devDependencies : {"undefined"}]
  \cup [readable : {TRUE}, json : {"malformed", "null"},
        dependencies : {"undefined"}, devDependencies : {"undefined"}]
  \cup [readable : {TRUE}, json : {"object"},
        dependencies : DepValues, devDependencies : DepValues]

\* JavaScript truthiness of a property value.
Truthy(v) == v \notin {"undefined", ""}

\* A filter that lets every manifest event through.
hasVuetifyAlways(m) == TRUE

\* handlePackageJsonChange lines 337-345: readFile or JSON.parse may throw,
\* a property access on null throws; all are caught at line 349.
hasVuetify(m) ==
  /\ m.readable
  /\ m.json = "object"
  /\ Truthy(m.dependencies) \/ Truthy(m.devDependencies)

\* debouncedExtract: the timer of the stored handle is cleared (a no-op when
\* it has fired) and a new one is set and stored.
debouncedExtract(handle, pending, t) ==
  LET h == handle + 1
      kept == DOMAIN pending \ {handle}
  IN [debounceTimer |-> h,
      timers |-> [x \in kept \cup {h} |->
                    IF x = h THEN t + FILE_WATCHER_DEBOUNCE_MS ELSE pending[x]]]

\* History: a trigger of a re-extraction arrived at time t.  It opens a new
\* burst when it is the first or comes a full delay after the previous one.
noteTrigger(w, t) ==
  [w EXCEPT !.events = @ + 1,
            !.triggers = @ + 1,
            !.last = t,
            !.calls = IF w.triggers = 0 \/ t - w.last >= FILE_WATCHER_DEBOUNCE_MS
                      THEN 0 ELSE @]

\* A timer that is due runs before anything else happens.
NoneDue == \A h \in DOMAIN timers : timers[h] > now

\* onDidCreate / onDidChange of a node_modules pattern (lines 362-370).
ArtifactInstalled ==
  /\ watchers = "registered"
  /\ watched.events < MaxEvents
  /\ NoneDue
  /\ LET d == debouncedExtract(debounceTimer, timers, now)
     IN /\ debounceTimer' = d.debounceTimer
        /\ timers' = d.timers
  /\ watched' = noteTrigger(watched, now)
  /\ UNCHANGED <<now, reading>>
  /\ UNCHANGED <<fsVars, cacheVars, utilities, isExtracted, extractionPromise,
                 abortController, runs, nextRun, calls, clearPc, clears,
                 envChanges, faults, quietFrom, allUtilitiesCache, restart>>
  /\ lastGet' = NoGet
  /\ notified' = "none"
  /\ UNCHANGED <<watchers, finderVars, parserVars>>

\* onDidChange / onDidCreate of package.json (lines 319-327) up to
\* `await vscode.workspace.fs.readFile(uri)`.  m is what the read will give.
ManifestEvent(m) ==
  /\ watchers = "registered"
  /\ watched.events < MaxEvents
  /\ NoneDue
  /\ reading' = Append(reading, [manifest |-> m, at |-> now])
  /\ watched' = [(IF hasVuetify(m) THEN noteTrigger(watched, now)
                  ELSE [watched EXCEPT !.events = @ + 1])
                 EXCEPT !.manifests = @ + 1]
  /\ UNCHANGED <<debounceTimer, timers, now>>
  /\ UNCHANGED <<fsVars, cacheVars, utilities, isExtracted, extractionPromise,
                 abortController, runs, nextRun, calls, clearPc, clears,
                 envChanges, faults, quietFrom, allUtilitiesCache, restart>>
  /\ lastGet' = NoGet
  /\ notified' = "none"
  /\ UNCHANGED <<watchers, finderVars, parserVars>>

\* readFile of the i-th pending handler resolves or rejects and
\* handlePackageJsonChange runs to its end (lines 338-351).
ManifestRead(i) ==
  /\ i \in DOMAIN reading
  /\ NoneDue
  /\ LET d == IF hasVuetify(reading[i].manifest)
              THEN debouncedExtract(debounceTimer, timers, now)
              ELSE [debounceTimer |-> debounceTimer, timers |-> timers]
     IN /\ debounceTimer' = d.debounceTimer
        /\ timers' = d.timers
  /\ reading' = [j \in 1..(Len(reading) - 1) |->
                   IF j < i THEN reading[j] ELSE reading[j + 1]]
  /\ UNCHANGED <<now, watched>>
  /\ UNCHANGED <<fsVars, cacheVars, utilities, isExtracted, extractionPromise,
                 abortController, runs, nextRun, calls, clearPc, clears,
                 envChanges, faults, quietFrom, allUtilitiesCache, restart>>
  /\ lastGet' = NoGet
  /\ notified' = "none"
  /\ UNCHANGED <<watchers, finderVars, parserVars>>

\* The callback of a due timer (lines 413-415): extractAll(true).
TimerFires(h, limit) ==
  /\ h \in DOMAIN timers
  /\ timers[h] <= now
  /\ timers' = [x \in DOMAIN timers \ {h} |-> timers[x]]
  /\ watched' = [watched EXCEPT !.calls = @ + 1]
  /\ extractAll(TRUE, FALSE, limit)
  /\ UNCHANGED <<debounceTimer, now, reading>>
  /\ UNCHANGED <<watchers, finderVars, parserVars>>

\* A removal handler that re-extracts like the other two.
onDidDeleteDebounced == "debouncedExtract"

\* onDidDelete of a node_modules pattern (lines 372-375).
onDidDelete == "clear"

ArtifactDeleted ==
  /\ watchers = "registered"
  /\ watched.events < MaxEvents
  /\ NoneDue
  /\ watched' = [watched EXCEPT !.events = @ + 1, !.deletes = @ + 1]
  /\ IF onDidDelete = "clear"
     THEN /\ clear(FALSE)
          /\ UNCHANGED <<debounceTimer, timers>>
     ELSE /\ LET d == debouncedExtract(debounceTimer, timers, now)
             IN /\ debounceTimer' = d.debounceTimer
                /\ timers' = d.timers
          /\ UNCHANGED <<fsVars, cacheVars, utilities, isExtracted,
                         extractionPromise, abortController, runs, nextRun,
                         calls, clearPc, clears, envChanges, faults, quietFrom,
                         allUtilitiesCache, restart>>
          /\ lastGet' = NoGet
          /\ notified' = "none"
  /\ UNCHANGED <<now, reading>>
  /\ UNCHANGED <<watchers, finderVars, parserVars>>

\* dispose (lines 421-428): the timer of the stored handle is cleared and
\* the watchers and the refresh command are disposed of, so that no event
\* is delivered any more.  The handle stays stored.
WatcherDispose ==
  /\ watchers = "registered"
  /\ NoneDue
  /\ timers' = [x \in DOMAIN timers \ {debounceTimer} |-> timers[x]]
  /\ watchers' = "disposed"
  /\ UNCHANGED <<debounceTimer, now, reading, watched>>
  /\ UNCHANGED <<fsVars, cacheVars, utilities, isExtracted, extractionPromise,
                 abortController, runs, nextRun, calls, clearPc, clears,
                 envChanges, faults, quietFrom, allUtilitiesCache, restart>>
  /\ lastGet' = NoGet
  /\ notified' = "none"
  /\ UNCHANGED <<finderVars, parserVars>>

\* Time passes, never beyond the due time of a pending timer.
Tick(d) ==
  /\ now + d <= MaxTime
  /\ \A h \in DOMAIN timers : timers[h] >= now + d
  /\ now' = now + d
  /\ UNCHANGED <<debounceTimer, timers, reading, watched>>
  /\ UNCHANGED <<fsVars, cacheVars, utilities, isExtracted, extractionPromise,
                 abortController, runs, nextRun, calls, clearPc, clears,
                 envChanges, faults, quietFrom, allUtilitiesCache, restart>>
  /\ lastGet' = NoGet
  /\ notified' = "none"
  /\ UNCHANGED <<watchers, finderVars, parserVars>>

\* ------------------------------------------------------------ specification
\* After construction.  The workspace has two folders; the first holds an
\* installation.
Constructed ==
  /\ installed = [r \in Roots |-> r = 1]
  /\ version = [r \in Roots |-> "3.1.0"]
  /\ bytes = [r \in Roots |-> 1]
  /\ memoryCache = [k \in {} |-> NoEntry]
  /\ disk = [k \in {} |-> <<>>]
  /\ utilities = <<>>
  /\ isExtracted = FALSE
  /\ extractionPromise = 0
  /\ abortController = 0
  /\ runs = [r \in RunIds |-> NewFrame]
  /\ nextRun = 0
  /\ calls = <<>>
  /\ clearPc = "idle"
  /\ clears = 0
  /\ envChanges = 0
  /\ faults = 0
  /\ quietFrom = 0
  /\ lastGet = NoGet
  /\ allUtilitiesCache = NullAll
  /\ notified = "none"
  /\ restart = NoRestart
  /\ debounceTimer = 0
  /\ timers = [h \in {} |-> 0]
  /\ now = 0
  /\ reading = <<>>
  /\ watched = NoEvents
  /\ watchers = "registered"

Init ==
  /\ Constructed
  /\ tree = PlainTree
  /\ located = NotRun
  /\ sheet = PlainSheet
  /\ parseResult = NotParsed

\* The I/O of one get that may fail: the cache file read, the artifact read
\* of calculateFileHash, the directory listing of deleteFromDisk.
GetFaults(limit) ==
  IF faults < limit THEN {"none", "read", "hash", "delete"} ELSE {"none"}

RunStep(r, limit) ==
  \/ FindStep(r, TRUE)
  \/ \E fk \in GetFaults(limit) : GetStep(r, fk # "read", fk # "hash", fk # "delete")
  \/ \E ok \in Outcomes(limit) : ParseStep(r, ok)
  \/ \E ok \in Outcomes(limit) : HashStep(r, ok)
  \/ \E ok \in Outcomes(limit) : WriteStep(r, ok)

\* extractAll calls overlap each other and clear() at every suspension
\* point; the filesystem changes under them.
Next ==
  \/ \E force \in BOOLEAN : ExtractAll(force, FALSE, MaxRuns)
  \/ Clear(FALSE)
  \/ ClearStep(TRUE)
  \/ \E r \in RunIds : RunStep(r, 0)
  \/ \E r \in Roots : ChangeBytes(r, MaxEnv)
  \/ \E r \in Roots : Reinstall(r, ~installed[r], version[r], MaxEnv)

Spec == Init /\ [][Next]_vars

\* The providers call ensureExtracted while extractAll and clear() are called
\* by activation, the watcher and the refresh command.
EnsureNext ==
  \/ EnsureExtracted(MaxRunsShort)
  \/ \E force \in BOOLEAN : ExtractAll(force, FALSE, MaxRunsShort)
  \/ Clear(FALSE)
  \/ ClearStep(TRUE)
  \/ \E r \in RunIds : RunStep(r, 0)
  \/ \E r \in Roots : Reinstall(r, ~installed[r], version[r], MaxEnv)

EnsureSpec == Init /\ [][EnsureNext]_vars

\* extractAll is called one at a time, a new call only when none is in
\* flight; the filesystem changes and I/O fails at any point.
SeqNext ==
  \/ \E force \in BOOLEAN : ExtractAll(force, TRUE, MaxRunsShort)
  \/ \E r \in RunIds : RunStep(r, MaxFaults)
  \/ \E r \in Roots : ChangeBytes(r, MaxEnv)
  \/ \E r \in Roots, inst \in BOOLEAN, ver \in Versions : Reinstall(r, inst, ver, MaxEnv)

SeqSpec == Init /\ [][SeqNext]_vars

\* The same with clear() and room for longer histories.
LongNext ==
  \/ \E force \in BOOLEAN : ExtractAll(force, TRUE, MaxRuns)
  \/ Clear(TRUE)
  \/ \E ok \in Outcomes(MaxFaults) : ClearStep(ok)
  \/ \E r \in RunIds : RunStep(r, MaxFaults)
  \/ \E r \in Roots : ChangeBytes(r, MaxEnvLong)
  \/ \E r \in Roots, inst \in BOOLEAN, ver \in Versions : Reinstall(r, inst, ver, MaxEnvLong)

LongSpec == Init /\ [][LongNext]_vars

\* One extension host after another: extractAll one at a time, the public
\* API reads the records, the host is deactivated and restarted.
ApiNext ==
  \/ \E force \in BOOLEAN : ExtractAll(force, TRUE, MaxRunsShort)
  \/ \E r \in RunIds : RunStep(r, MaxFaults)
  \/ GetAllUtilities
  \/ Dispose
  \/ Restart(MaxRunsShort)
  \/ \E r \in Roots : ChangeBytes(r, MaxEnv)
  \/ \E r \in Roots, inst \in BOOLEAN, ver \in Versions : Reinstall(r, inst, ver, MaxEnv)

ApiSpec == Init /\ [][ApiNext]_vars

\* The finder alone, on every tree.
FinderInit ==
  /\ Constructed
  /\ tree \in Trees
  /\ located = NotRun
  /\ sheet = PlainSheet
  /\ parseResult = NotParsed

FinderNext == FinderFindAll

FinderSpec == FinderInit /\ [][FinderNext]_vars

\* The parser alone, on every artifact.
ParserInit ==
  /\ Constructed
  /\ tree = PlainTree
  /\ located = NotRun
  /\ sheet \in Artifacts
  /\ parseResult = NotParsed

ParserNext == ParseSheet

ParserSpec == ParserInit /\ [][ParserNext]_vars

\* extractAll calls overlap while I/O and the Locator fail.
FaultNext ==
  \/ \E force \in BOOLEAN : ExtractAll(force, FALSE, MaxRunsShort)
  \/ \E r \in RunIds, ok \in Outcomes(MaxFaults) : FindStep(r, ok)
  \/ \E r \in RunIds, fk \in GetFaults(MaxFaults) :
       GetStep(r, fk # "read", fk # "hash", fk # "delete")
  \/ \E r \in RunIds, ok \in Outcomes(MaxFaults) : ParseStep(r, ok)
  \/ \E r \in RunIds, ok \in Outcomes(MaxFaults) : HashStep(r, ok)
  \/ \E r \in RunIds, ok \in Outcomes(MaxFaults) : WriteStep(r, ok)
  \/ \E r \in Roots, inst \in BOOLEAN, ver \in Versions : Reinstall(r, inst, ver, MaxEnv)

FaultSpec == Init /\ [][FaultNext]_vars

\* The watcher drives the extractor: filesystem events arrive as time
\* passes.  Its runs are forced ones, which never call cache.get.
WatchNext ==
  \/ ArtifactInstalled
  \/ \E m \in Manifests : ManifestEvent(m)
  \/ \E i \in 1..MaxEvents : ManifestRead(i)
  \/ \E h \in 1..MaxEvents : TimerFires(h, MaxRuns)
  \/ ArtifactDeleted
  \/ \E d \in TickSizes : Tick(d)
  \/ ClearStep(TRUE)
  \/ \E r \in RunIds : FindStep(r, TRUE)
  \/ \E r \in RunIds : ParseStep(r, TRUE)
  \/ \E r \in RunIds : HashStep(r, TRUE)
  \/ \E r \in RunIds : WriteStep(r, TRUE)

WatchSpec == Init /\ [][WatchNext]_vars

\* The same until the extension is deactivated and the watcher disposed of,
\* with the clock advancing by whole delays.
DisposeNext ==
  \/ ArtifactInstalled
  \/ \E m \in Manifests : ManifestEvent(m)
  \/ \E i \in 1..MaxEvents : ManifestRead(i)
  \/ \E h \in 1..MaxEvents : TimerFires(h, MaxRunsShort)
  \/ WatcherDispose
  \/ Tick(FILE_WATCHER_DEBOUNCE_MS)
  \/ \E r \in RunIds : FindStep(r, TRUE)
  \/ \E r \in RunIds : ParseStep(r, TRUE)
  \/ \E r \in RunIds : HashStep(r, TRUE)
  \/ \E r \in RunIds : WriteStep(r, TRUE)

DisposeSpec == Init /\ [][DisposeNext]_vars

\* ------------------------------------------------------------------ claims
\* The Index entry of a root as an option: <<records>> or << >>.
IndexOf(idx, root) == IF MapHas(idx, root) THEN <<MapGet(idx, root)>> ELSE <<>>

\* Only ensureExtracted has been called: no direct extractAll, no clear().
OnlyEnsure ==
  /\ clears = 0
  /\ \A r \in RunIds : runs[r].pc # "new" => runs[r].viaEnsure

\* C1: while only ensureExtracted is called, every call made while a run is
\* in flight starts nothing and awaits exactly that run, one extractAll is
\* started in all, and a call that awaited a run is resolved only once that
\* run has finished.
C1_Coalescing ==
  OnlyEnsure =>
    /\ nextRun <= 1
    /\ \A i \in DOMAIN calls :
         /\ calls[i].inflight # {} =>
              ~calls[i].started /\ calls[i].inflight = {calls[i].awaits}
         /\ (calls[i].resolved /\ calls[i].awaits # 0) =>
              runs[calls[i].awaits].pc = "done"

\* Two calls, the second made while the run of the first was in flight, both
\* resolved by that one run.
C1_Witness ==
  /\ OnlyEnsure
  /\ Len(calls) >= 2
  /\ calls[1].started /\ calls[2].inflight = {1} /\ calls[2].awaits = 1
  /\ calls[1].resolved /\ calls[2].resolved
  /\ nextRun = 1

\* C2: at most one extractAll run is in flight with its signal not set.
C2_SingleLiveRun ==
  Cardinality({r \in InFlight : ~runs[r].aborted}) <= 1

\* C3: a run whose signal is set does not change the Index when it resumes.
C3_NoWriteAfterCancel ==
  [][\A r \in RunIds :
       (runs[r].aborted /\ runs'[r] # runs[r]) => utilities' = utilities]_vars

\* C4: two extractAll calls, the second made while the first was processing
\* root a, and nothing else: once both have returned, the Index entry of a is
\* the one it was when the second call was made or the one the second run
\* stored.
C4_CancellationSafety ==
  (nextRun = 2 /\ clears = 0 /\ InFlight = {}) =>
    \A a \in runs[2].mid :
      IndexOf(utilities, a) \in
        {IndexOf(runs[2].snap, a), IndexOf(runs[2].adopted, a)}

\* The entry get() finds for the root a frame is about to look up: the one
\* captured from memory, else the one on disk.
StoredFor(f) ==
  IF f.memEntry # NoEntry THEN f.memEntry
  ELSE readFromDisk(disk, CurRoot(f), CurVersion(f), TRUE)

\* C5: when get() of extractAll(false) finds an entry of (root, version)
\* whose hash is not the hash of the artifact's current bytes, and none of
\* its I/O fails, it returns a miss, no entry of the root is left in memory or
\* on disk, and the run goes on to parse the artifact.
C5_HashInvalidation ==
  [][\A r \in RunIds :
       (/\ runs[r].pc = "get" /\ runs'[r] # runs[r] /\ faults' = faults
        /\ StoredFor(runs[r]) # NoEntry
        /\ StoredFor(runs[r]).hash # Sha256(bytes[CurRoot(runs[r])]))
       => /\ ~lastGet'.hit
          /\ runs'[r].pc = "parse"
          /\ CurRoot(runs[r]) \notin DOMAIN memoryCache'
          /\ \A k \in DOMAIN disk' : ~StartsWith(k, KeyPrefix(CurRoot(runs[r])))]_vars

\* C6: a get() that returns records takes them from an entry whose version is
\* the requested one and whose hash is the hash of the artifact's current
\* bytes.
C6_ValidHit ==
  lastGet.hit =>
    /\ lastGet.from.version = lastGet.version
    /\ lastGet.from.hash = lastGet.current

\* Run r is the second of two extractAll(false) calls made one after the
\* other with no filesystem change and no failed I/O since the first was made.
QuietSecond(r) ==
  /\ r > 1 /\ quietFrom # 0 /\ quietFrom < r
  /\ runs[r].pc # "new"
  /\ ~runs[r].force /\ ~runs[r - 1].force

\* C7: the second of two such calls never reaches the parser, and when it
\* returns the Index is what it was when the call was made.
C7_Idempotence ==
  \A r \in RunIds :
    QuietSecond(r) =>
      /\ runs[r].pc \notin {"parse", "hash", "write"}
      /\ runs[r].pc = "done" => utilities = runs[r].snap

\* The second call has returned after adopting a cache hit.
C7_Witness ==
  \E r \in RunIds :
    /\ QuietSecond(r)
    /\ runs[r].pc = "done"
    /\ runs[r].adopted # <<>>
    /\ utilities = runs[r].snap

\* C8: a call of ensureExtracted made while an extraction is in flight starts
\* none and awaits a run that was in flight.
C8_AwaitsAnyRun ==
  \A i \in DOMAIN calls :
    calls[i].inflight # {} =>
      ~calls[i].started /\ calls[i].awaits \in calls[i].inflight

\* C9: a call of ensureExtracted made while isExtracted holds returns at once:
\* it awaits nothing, starts no run, and leaves the Index, the cache, the
\* status and every run as they are.
C9_ReturnsWhenCompleted ==
  [][(isExtracted /\ Len(calls') = Len(calls) + 1)
       => /\ calls'[Len(calls')].resolved
          /\ calls'[Len(calls')].awaits = 0
          /\ ~calls'[Len(calls')].started
          /\ UNCHANGED <<utilities, memoryCache, disk, isExtracted, runs,
                         nextRun, abortController, extractionPromise>>]_vars

\* A call was made after a run had set isExtracted, and returned at once.
C9_Witness ==
  /\ isExtracted
  /\ \E i \in DOMAIN calls :
       calls[i].awaits = 0 /\ calls[i].resolved /\ ~calls[i].started

\* C10: when clear() returns, isExtracted is false, the Index is empty and
\* neither memory nor disk holds an entry.
C10_ClearPostcondition ==
  [][(clearPc = "disk" /\ clearPc' = "idle")
       => /\ ~isExtracted'
          /\ utilities' = <<>>
          /\ DOMAIN memoryCache' = {}
          /\ DOMAIN disk' = {}]_vars

\* C11: a run whose findAll returns no installation finishes with isExtracted
\* set and with an empty Index.
C11_EmptyIndexWhenNoneFound ==
  [][\A r \in RunIds :
       (/\ runs[r].pc = "find" /\ runs'[r].pc = "done" /\ ~runs[r].aborted
        /\ Len(findAll(installed, version)) = 0)
       => (isExtracted' /\ utilities' = <<>>)]_vars

InRootOrder(idx) ==
  getUtilities(idx, RootOrder[1]) \o getUtilities(idx, RootOrder[2])

\* C13: what getAllUtilities would return is the concatenation of the Index's
\* current per-root records.
C13_AllRecordsCurrent ==
  getAllUtilities(allUtilitiesCache, utilities) = InRootOrder(utilities)

\* Only the first root holds an installation; the first extractAll of the
\* first session has returned, and since it was called nothing failed,
\* nothing changed on disk and nothing was disposed.
FirstRunCompleted ==
  /\ installed[1] /\ ~installed[2]
  /\ nextRun = 1 /\ runs[1].pc = "done"
  /\ quietFrom = 1 /\ restart.count = 0

\* C14: from an empty Index and cache, with an installation in the first of
\* two roots only, a completed extractAll leaves an Index entry for the first
\* root only, getUtilities of the second root is empty, and getAllUtilities
\* returns the first root's records.
C14_EndToEnd ==
  FirstRunCompleted =>
    /\ utilities = <<<<1, ParseCSS(bytes[1])>>>>
    /\ getUtilities(utilities, 2) = <<>>
    /\ getAllUtilities(allUtilitiesCache, utilities) = ParseCSS(bytes[1])

\* The run has completed and getAllUtilities has been called since.
C14_Witness ==
  /\ FirstRunCompleted
  /\ allUtilitiesCache # NullAll
  /\ getUtilities(utilities, 1) # <<>>

\* C15: when findAll resolves for a run that is not cancelled while one root
\* holds an installation and another holds none, the "not detected" message
\* is shown.
C15_NotDetectedNotice ==
  [][\A r \in RunIds :
       (/\ runs[r].pc = "find" /\ runs'[r] # runs[r] /\ ~runs[r].aborted
        /\ showWarnings
        /\ \E a, b \in Roots : installed[a] /\ ~installed[b])
       => notified' = "notDetected"]_vars

\* C16: a run with forceRefresh never awaits cache.get and starts every root
\* with the parser; when its cache.set returns with the write done, the entry
\* in memory and the file of (root, version) hold the parsed records, and so
\* does the Index.
C16_ForceRefresh ==
  [][\A r \in RunIds :
       runs[r].force =>
         /\ runs'[r].pc # "get"
         /\ (runs'[r].k # runs[r].k /\ InRoot(runs'[r])) => runs'[r].pc = "parse"
         /\ (runs[r].pc = "write" /\ runs'[r] # runs[r] /\ faults' = faults) =>
              LET a == CurRoot(runs[r])
                  v == CurVersion(runs[r])
                  e == runs[r].entry
              IN /\ e.version = v /\ e.utilities = runs[r].parsed
                 /\ a \in DOMAIN memoryCache' /\ memoryCache'[a] = e
                 /\ getCacheKey(a, v) \in DOMAIN disk'
                 /\ ParseJson(disk'[getCacheKey(a, v)]) = e
                 /\ IndexOf(utilities', a) = <<runs[r].parsed>>]_vars

\* A forced run has returned after storing records, although the run before
\* it had left a valid entry.
C16_Witness ==
  \E r \in RunIds :
    /\ r > 1 /\ quietFrom # 0 /\ quietFrom < r
    /\ runs[r].force /\ runs[r].pc = "done"
    /\ runs[r].adopted # <<>>

\* Run r is the extractAll() of an activation that follows a restart, and
\* since the very first run was called nothing failed and nothing changed on
\* disk, so every record of the Index has its file.
FirstAfterRestart(r) ==
  /\ restart.count > 0 /\ r = restart.at + 1 /\ r > 1
  /\ quietFrom = 1
  /\ runs[r].pc # "new"

\* C17: the first extractAll(false) after a restart never reaches the parser;
\* when it returns the Index is the one held before the restart and the
\* memory entry of every root in it is the entry read from its file.
C17_PersistenceAcrossRestart ==
  \A r \in RunIds :
    FirstAfterRestart(r) =>
      /\ runs[r].pc \notin {"parse", "hash", "write"}
      /\ runs[r].pc = "done" =>
           /\ utilities = restart.index
           /\ \A i \in 1..Len(utilities) :
                LET a == utilities[i][1]
                IN /\ a \in DOMAIN memoryCache
                   /\ memoryCache[a] = readFromDisk(disk, a, version[a], TRUE)
                   /\ memoryCache[a].utilities = utilities[i][2]

\* The run after the restart has returned with the records it adopted.
C17_Witness ==
  \E r \in RunIds :
    /\ FirstAfterRestart(r)
    /\ runs[r].pc = "done"
    /\ runs[r].adopted # <<>>
    /\ restart.index # <<>>

\* C18: no failed filesystem call of the cache reaches the caller.  On the
\* current cache: a get whose reads fail, or whose hashing fails, is a miss; a
\* failed write, delete or listing leaves the files as they are.  In a step
\* where an I/O call of get, set or clear fails, no error is reported, get
\* ends as a miss and the run goes on to parse, set goes on to its write and
\* then to the Index, and clear() returns.
C18_CacheNeverRaises ==
  [][/\ \A a \in Roots, v \in Versions :
          /\ ~cacheGet(memLookup(memoryCache, a, v), memoryCache, disk, bytes,
                       a, v, FALSE, TRUE, TRUE).hit
          /\ ~cacheGet(memLookup(memoryCache, a, v), memoryCache, disk, bytes,
                       a, v, TRUE, FALSE, TRUE).hit
          /\ writeToDisk(disk, a, v, NoEntry, FALSE) = disk
          /\ deleteFromDisk(disk, a, FALSE) = disk
     /\ clearDiskCache(disk, FALSE) = disk
     /\ faults' # faults =>
          /\ \A r \in RunIds :
               (runs'[r] # runs[r] /\ runs[r].pc \in {"get", "hash", "write"})
               => /\ notified' = "none"
                  /\ runs[r].pc = "get" =>
                       ~lastGet'.hit /\ runs'[r].pc = "parse"
                  /\ runs[r].pc = "hash" =>
                       /\ runs'[r].pc = "write"
                       /\ runs'[r].entry.hash = NoHash
                       /\ memoryCache'[CurRoot(runs[r])] = runs'[r].entry
                  /\ runs[r].pc = "write" =>
                       /\ disk' = disk
                       /\ IndexOf(utilities', CurRoot(runs[r]))
                            = <<runs[r].parsed>>
          /\ (clearPc = "disk" /\ clearPc' = "idle") =>
               notified' = "none" /\ disk' = disk]_vars

\* A write failed, nothing reached the disk, and the run stored its records.
C18_Witness ==
  /\ faults > 0
  /\ DOMAIN disk = {}
  /\ utilities # <<>>
  /\ \E r \in RunIds : runs[r].pc = "done" /\ runs[r].adopted # <<>>

\* C19: with nothing in the durable layer (the write of set() failed and
\* every read misses), a get(root, version, path) that finds in memory the
\* entry set() stored, whose hash is the hash of the artifact's current bytes,
\* returns its records.
C19_MemoryLayerSuffices ==
  [][\A r \in RunIds :
       (/\ runs[r].pc = "get"
        /\ runs'[r] # runs[r]
        /\ DOMAIN disk = {}
        /\ runs[r].memEntry # NoEntry
        /\ runs[r].memEntry.hash = Sha256(bytes[CurRoot(runs[r])]))
       => /\ lastGet'.hit
          /\ lastGet'.from = runs[r].memEntry]_vars

\* C20: when get() invalidates a root (it found an entry, returned a miss and
\* no I/O failed), afterwards get(root, v) is a miss for every version v, and
\* the memory entry and the disk file of every other root and version are
\* what they were, also for a root whose path starts with the
\* invalidated root's path.
C20_InvalidateOnlyThatRoot ==
  [][\A r \in RunIds :
       (/\ runs[r].pc = "get"
        /\ runs'[r] # runs[r]
        /\ faults' = faults
        /\ StoredFor(runs[r]) # NoEntry
        /\ ~lastGet'.hit)
       => LET a == CurRoot(runs[r])
          IN /\ \A v \in Versions :
                  ~cacheGet(memLookup(memoryCache', a, v), memoryCache', disk',
                            bytes, a, v, TRUE, TRUE, TRUE).hit
             /\ \A b \in Roots \ {a}, v \in Versions :
                  /\ memLookup(memoryCache', b, v) = memLookup(memoryCache, b, v)
                  /\ readFromDisk(disk', b, v, TRUE) = readFromDisk(disk, b, v, TRUE)]_vars

\* Root 1 ('/a/b') has just been invalidated by a get() and root 2
\* ('/a/b-c') still has its memory entry and its disk file.
C20_Witness ==
  /\ faults = 0 /\ clears = 0
  /\ \E r \in RunIds : runs[r].pc = "parse" /\ ~runs[r].force /\ CurRoot(runs[r]) = 1
  /\ IndexOf(utilities, 1) # <<>>
  /\ 1 \notin DOMAIN memoryCache
  /\ \A k \in DOMAIN disk : ~StartsWith(k, KeyPrefix(1))
  /\ memLookup(memoryCache, 2, version[2]) # NoEntry
  /\ readFromDisk(disk, 2, version[2], TRUE) = memLookup(memoryCache, 2, version[2])

\* C21: at most one debounce timer is pending at any time; a burst of
\* triggers, each less than the debounce delay after the previous one, leads
\* to at most one extractAll(true) of the watcher, and that call is made one
\* delay after the arrival of the burst's last trigger.
C21_Debounce ==
  [][/\ Cardinality(DOMAIN timers') <= 1
     /\ watched'.calls <= 1
     /\ watched'.calls = watched.calls + 1
        => now = watched.last + FILE_WATCHER_DEBOUNCE_MS]_vars

\* C22: the step that handles an artifact removal makes the clear() call
\* itself (Index and memory layer empty, status not extracted, the durable
\* clean-up under way), sets or clears no timer and starts no extractAll.
C22_RemovalClearsAtOnce ==
  [][watched'.deletes # watched.deletes
     => /\ clears' = clears + 1
        /\ clearPc' = "disk"
        /\ utilities' = <<>>
        /\ DOMAIN memoryCache' = {}
        /\ ~isExtracted'
        /\ timers' = timers
        /\ debounceTimer' = debounceTimer
        /\ nextRun' = nextRun
        /\ runs' = runs]_vars

\* A removal has just been handled while records were held and a debounce
\* timer was pending: the records are gone, the timer is still pending.
C22_Witness ==
  /\ watched.deletes = 1
  /\ clearPc = "disk"
  /\ DOMAIN timers # {}
  /\ \E r \in RunIds : runs[r].pc = "done" /\ runs[r].adopted # <<>>
  /\ utilities = <<>>

\* The sequence without its i-th element.
Drop(seq, i) ==
  [j \in 1..(Len(seq) - 1) |-> IF j < i THEN seq[j] ELSE seq[j + 1]]

\* The manifest is readable, parses to an object and has the package among
\* its dependencies or devDependencies.
ListsPackage(m) ==
  /\ m.readable
  /\ m.json = "object"
  /\ m.dependencies # "undefined" \/ m.devDependencies # "undefined"

\* C23: when the handler of a manifest event ends, a timer is set only if the
\* manifest is readable, parses and lists the package; when it is not, no
\* timer is touched, no run starts and Index, cache and status stay as they
\* are.
C23_ManifestFilter ==
  [][\A i \in DOMAIN reading :
       reading' = Drop(reading, i)
       => /\ (timers' # timers \/ debounceTimer' # debounceTimer)
             => ListsPackage(reading[i].manifest)
          /\ ~ListsPackage(reading[i].manifest)
             => UNCHANGED <<timers, debounceTimer, utilities, memoryCache,
                            disk, isExtracted, runs, nextRun>>]_vars

\* Two manifest events have been handled: one set the debounce timer, the
\* other was filtered out.
C23_Witness ==
  /\ watched.manifests = 2 /\ watched.events = 2 /\ watched.triggers = 1
  /\ reading = <<>>
  /\ debounceTimer = 1
  /\ DOMAIN timers = {1}

\* C24: when an extractAll(true), the call refresh() awaits, returns, a
\* forced re-extraction has finished: the status is Completed.
C24_RefreshCompletes ==
  [][\A r \in RunIds :
       (runs[r].force /\ runs[r].pc \notin {"new", "done"} /\ runs'[r].pc = "done")
       => isExtracted']_vars

\* C25: a step of a run whose cancellation signal is set shows no message.
C25_SilentCancellation ==
  [][\A r \in RunIds :
       (runs[r].aborted /\ runs[r].pc \notin {"new", "done"} /\ runs'[r] # runs[r])
       => notified' = "none"]_vars

\* A root has a location holding a confirmed installation that the finder
\* can enumerate and access.
Confirmed(cands) ==
  {i \in Strategies : cands[i] = "confirmed" /\ inSearchPaths(i, cands[i])}

\* The lowest of a non-empty set of locations: the one of highest priority.
First(S) == CHOOSE i \in S : \A j \in S : i <= j

\* C26: once findAll has returned, a root with a confirmed installation
\* among its locations has the one of highest priority as its installation,
\* whatever lies at the locations before it.
C26_FirstConfirmedWins ==
  located # NotRun
  => \A r \in Roots :
       Confirmed(tree[r]) # {} => located[r] = First(Confirmed(tree[r]))

\* The locations of a root with every location whose probe fails (access
\* denied, enumeration failed) replaced by an empty one.
AsAbsent(cands) ==
  [i \in Strategies |->
     IF cands[i] \in {"denied", "unlisted"} THEN "absent" ELSE cands[i]]

\* C27: findAll returns a result for every tree, and what it returns for a
\* root is what it would return were the locations whose probes fail empty:
\* a failing probe neither ends the search of the root nor affects another
\* root.
C27_ProbesNonFatal ==
  located # NotRun
  => /\ DOMAIN located = Roots
     /\ \A r \in Roots :
          located[r] = findInMonorepo(AsAbsent(tree[r]), 1).value

\* The first root's own directory cannot be accessed and its monorepo
\* subdirectory cannot be listed; its installation is the workspace member's,
\* and the second root's installation is returned as well.
C27_Witness ==
  /\ tree[1] = <<"denied", "absent", "unlisted", "absent", "confirmed">>
  /\ tree[2][1] = "confirmed"
  /\ located = <<5, 1>>

\* C28: parseCSS fails with the size error exactly when the artifact is larger
\* than 52,428,800 bytes, and then it has neither read the file nor run the
\* grammar parser; an artifact of exactly that size is read and parsed.
C28_SizeCeiling ==
  parseResult.ran
  => /\ parseResult.error = "tooLarge" <=> sheet.size > 52428800
     /\ parseResult.error = "tooLarge"
        => ~parseResult.read /\ ~parseResult.grammar
     /\ sheet.size = 52428800
        => /\ parseResult.error = "none"
           /\ parseResult.read /\ parseResult.grammar
           /\ parseResult.utilities # <<>>

\* An artifact one byte over the ceiling has been rejected.
C28_Witness ==
  /\ parseResult.ran
  /\ sheet.size = 52428801
  /\ parseResult.error = "tooLarge"

\* The class selectors of a prelude name the class.
Mentions(prelude, name) ==
  \E t \in DOMAIN prelude :
    prelude[t].type = "ClassSelector" /\ prelude[t].name = name

\* The rules of the sheet that pass the filter and mention the name.
RulesFor(name) ==
  {k \in DOMAIN sheet.rules :
     /\ isUtilitySelector(generate(sheet.rules[k].prelude))
     /\ Mentions(sheet.rules[k].prelude, name)}

\* C29: when a sheet has been parsed, no two records of the output have the
\* same name; every record carries the selector and the properties of the
\* first rule, in document order, that passes the filter and mentions its
\* name; and every name such a rule mentions has a record.
C29_Dedup ==
  (parseResult.ran /\ parseResult.error = "none")
  => LET out == parseResult.utilities
     IN /\ \A i, j \in DOMAIN out : i # j => out[i].name # out[j].name
        /\ \A i \in DOMAIN out :
             /\ RulesFor(out[i].name) # {}
             /\ LET k == First(RulesFor(out[i].name))
                IN /\ out[i].selector = generate(sheet.rules[k].prelude)
                   /\ out[i].properties = properties(sheet.rules[k].block)
        /\ \A k \in DOMAIN sheet.rules, t \in 1..3 :
             (/\ t \in DOMAIN sheet.rules[k].prelude
              /\ sheet.rules[k].prelude[t].type = "ClassSelector"
              /\ k \in RulesFor(sheet.rules[k].prelude[t].name))
             => \E i \in DOMAIN out : out[i].name = sheet.rules[k].prelude[t].name

\* Two rules `.ma-2` with different declarations have been parsed into one
\* record.
C29_Witness ==
  /\ parseResult.ran
  /\ Len(sheet.rules) = 2
  /\ sheet.rules[1].prelude = Sel_ma2 /\ sheet.rules[2].prelude = Sel_ma2
  /\ sheet.rules[1].block # sheet.rules[2].block
  /\ Len(parseResult.utilities) = 1
  /\ parseResult.utilities[1].properties = properties(sheet.rules[1].block)

\* The eligibility of a rule, on the nodes of its prelude: no descendant,
\* child or adjacent combinator, no attribute selector, no pseudo-element, a
\* class first, and that class begins with a utility prefix.
Eligible(prelude) ==
  /\ \A t \in DOMAIN prelude :
       /\ ~(prelude[t].type = "Combinator"
            /\ prelude[t].name \in {<<" ">>, <<">">>, <<"+">>})
       /\ prelude[t].type \notin {"AttributeSelector", "PseudoElementSelector"}
  /\ prelude # <<>>
  /\ prelude[1].type = "ClassSelector"
  /\ \E prefix \in UTILITY_PREFIXES : StartsWith(prelude[1].name, prefix)

\* C30: every record of the output comes from an eligible rule, and the
\* sheet `.ma-2`, `.foo .bar`, `.v-btn::before`, `[data-x]` yields the record
\* of `.ma-2` and no other.
C30_Eligibility ==
  parseResult.ran
  => /\ \A i \in DOMAIN parseResult.utilities :
          \A k \in DOMAIN sheet.rules :
            generate(sheet.rules[k].prelude) = parseResult.utilities[i].selector
            => Eligible(sheet.rules[k].prelude)
     /\ sheet.rules = FourRules /\ parseResult.error = "none"
        => /\ Len(parseResult.utilities) = 1
           /\ parseResult.utilities[1].name = <<"m", "a", "-", "2">>

\* The sheet of the four rules has been parsed.
C30_Witness ==
  /\ parseResult.ran
  /\ parseResult.error = "none"
  /\ sheet.rules = FourRules
  /\ Len(parseResult.utilities) = 1

\* The class names [m|p][a|t|r|b|l|s|e|x|y]-N.
Digits == {"0", "1", "2", "3", "4", "5", "6", "7", "8", "9"}

IsSpacingName(name) ==
  /\ Len(name) >= 4
  /\ name[1] \in {"m", "p"}
  /\ name[2] \in {"a", "t", "r", "b", "l", "s", "e", "x", "y"}
  /\ name[3] = "-"
  /\ \A i \in 4..Len(name) : name[i] \in Digits

\* The words a description uses for the type and the direction letters.
TypeWord(letter) == IF letter = "m" THEN "margin" ELSE "padding"

DirectionPhrase(letter) ==
  CASE letter = "a" -> "on all sides"
    [] letter = "t" -> "on top"
    [] letter = "r" -> "on right"
    [] letter = "b" -> "on bottom"
    [] letter = "l" -> "on left"
    [] letter = "s" -> "on start (inline-start)"
    [] letter = "e" -> "on end (inline-end)"
    [] letter = "x" -> "horizontally"
    [] letter = "y" -> "vertically"

\* The description has the text among its parts.
Contains(description, text) ==
  \E i \in DOMAIN description : description[i] = text

\* C31: every record whose name is a spacing class [m|p][a|t|r|b|l|s|e|x|y]-N
\* has category spacing and a description that contains the type named by
\* the first letter and the direction phrase selected by the second; the
\* record of `pa-4` contains "padding" and "on all sides".
C31_SpacingDescription ==
  (parseResult.ran /\ parseResult.error = "none")
  => \A i \in DOMAIN parseResult.utilities :
       LET u == parseResult.utilities[i]
       IN IsSpacingName(u.name)
          => /\ u.category = "spacing"
             /\ Contains(u.description, TypeWord(u.name[1]))
             /\ Contains(u.description, DirectionPhrase(u.name[2]))

\* The categories and their patterns, in the order of precedence.
CategoryOrder ==
  <<[category |-> "spacing",
     prefixes |-> {<<a, b, "-">> :
                     a \in {"m", "p"},
                     b \in {"a", "t", "b", "l", "r", "s", "x", "y", "e"}}],
    [category |-> "display",
     prefixes |-> {<<"d", "-">>}],
    [category |-> "flexbox",
     prefixes |-> {<<"f", "l", "e", "x", "-">>,
                   <<"a", "l", "i", "g", "n", "-">>,
                   <<"j", "u", "s", "t", "i", "f", "y", "-">>,
                   <<"o", "r", "d", "e", "r", "-">>}],
    [category |-> "typography",
     prefixes |-> {<<"t", "e", "x", "t", "-">>,
                   <<"f", "o", "n", "t", "-">>}],
    [category |-> "background",
     prefixes |-> {<<"b", "g", "-">>}],
    [category |-> "elevation",
     prefixes |-> {<<"e", "l", "e", "v", "a", "t", "i", "o", "n", "-">>}],
    [category |-> "border",
     prefixes |-> {<<"r", "o", "u", "n", "d", "e", "d">>,
                   <<"b", "o", "r", "d", "e", "r", "-">>}],
    [category |-> "sizing",
     prefixes |-> {<<"w", "-">>,
                   <<"h", "-">>,
                   <<"m", "i", "n", "-">>,
                   <<"m", "a", "x", "-">>}],
    [category |-> "position",
     prefixes |-> {<<"p", "o", "s", "i", "t", "i", "o", "n", "-">>,
                   <<"t", "o", "p", "-">>,
                   <<"r", "i", "g", "h", "t", "-">>,
                   <<"b", "o", "t", "t", "o", "m", "-">>,
                   <<"l", "e", "f", "t", "-">>}],
    [category |-> "gap",
     prefixes |-> {<<"g", "a", "-">>,
                   <<"g", "r", "-">>,
                   <<"g", "c", "-">>}]>>

Categories ==
  {CategoryOrder[k].category : k \in DOMAIN CategoryOrder} \cup {"other"}

\* The steps of the order whose pattern the name matches.
Matching(name) ==
  {k \in DOMAIN CategoryOrder :
     \E prefix \in CategoryOrder[k].prefixes : StartsWith(name, prefix)}

\* The record of the parsed sheet with the name, if there is one.
RecordOf(name) ==
  {parseResult.utilities[i] :
     i \in {j \in DOMAIN parseResult.utilities :
              parseResult.utilities[j].name = name}}

\* C33: every record has one category of the closed set, the category of the
\* first pattern its name matches in the order spacing, display, flexbox,
\* typography, background, elevation, border, sizing, position, gap, and
\* other when it matches none; `d-flex` is display, `elevation-8` is
\* elevation and `overflow-hidden` is other.
C33_Categorization ==
  (parseResult.ran /\ parseResult.error = "none")
  => /\ \A i \in DOMAIN parseResult.utilities :
          LET u == parseResult.utilities[i]
          IN /\ u.category \in Categories
             /\ u.category =
                  IF Matching(u.name) = {} THEN "other"
                  ELSE CategoryOrder[First(Matching(u.name))].category
     /\ \A u \in RecordOf(<<"d", "-", "f", "l", "e", "x">>) :
          u.category = "display"
     /\ \A u \in RecordOf(<<"e", "l", "e", "v", "a", "t", "i", "o", "n", "-", "8">>) :
          u.category = "elevation"
     /\ \A u \in RecordOf(<<"o", "v", "e", "r", "f", "l", "o", "w", "-",
                            "h", "i", "d", "d", "e", "n">>) :
          u.category = "other"

\* A sheet with the rule `.overflow-hidden` has been parsed into a record of
\* category other.
C33_Witness ==
  /\ parseResult.ran
  /\ \E u \in RecordOf(<<"o", "v", "e", "r", "f", "l", "o", "w", "-",
                         "h", "i", "d", "d", "e", "n">>) :
       u.category = "other"

\* C39: every record of a parsed sheet has a name that starts with one of
\* the utility prefixes, also when its rule's selector is a compound or a
\* list of several classes.
C39_RecordNamesArePrefixed ==
  (parseResult.ran /\ parseResult.error = "none")
  => \A i \in DOMAIN parseResult.utilities :
       \E prefix \in UTILITY_PREFIXES :
         StartsWith(parseResult.utilities[i].name, prefix)

\* The stages of extractForWorkspace, in their order.
Stage(pc) ==
  CASE pc = "get" -> 1 [] pc = "parse" -> 2 [] pc = "hash" -> 3
    [] pc = "write" -> 4 [] OTHER -> 0

\* C32: a run processes the installations of its Locator result one at a
\* time and in their order: it takes up the first one when the Locator
\* returns, and takes up installation k+1 only in the step in which the
\* processing of installation k ends, by a stored result or by a failure;
\* while it stays with an installation its stages only advance.
C32_RootsInSequence ==
  [][\A r \in RunIds :
       LET f == runs[r]
           g == runs'[r]
       IN /\ InRoot(g) => g.k \in 1..Len(g.insts)
          /\ (InRoot(g) /\ ~InRoot(f)) => (f.pc = "find" /\ g.k = 1)
          /\ (InRoot(g) /\ InRoot(f))
             => /\ g.insts = f.insts
                /\ g.k \in {f.k, f.k + 1}
                /\ g.k = f.k => Stage(g.pc) >= Stage(f.pc)
                /\ g.k = f.k + 1
                   => \/ MapHas(g.adopted, CurRoot(f))
                      \/ faults' > faults]_vars

\* A run is at its second installation after it has stored the records of
\* the first.
C32_Witness ==
  \E r \in RunIds :
    /\ InRoot(runs[r])
    /\ runs[r].k = 2
    /\ MapHas(runs[r].adopted, runs[r].insts[1].workspacePath)

\* The roots of a Locator result.
RootsOf(insts) == {insts[i].workspacePath : i \in DOMAIN insts}

\* The Locator result of a run that is about to take a step.
LocatedBy(f) == IF f.pc = "find" THEN findAll(installed, version) ELSE f.insts

\* C34: when a run that was not cancelled finishes, every root with an
\* entry in the Index is a root of the run's Locator result.
C34_IndexWithinLocated ==
  [][\A r \in RunIds :
       (/\ runs[r].pc \notin {"new", "done"}
        /\ runs'[r].pc = "done"
        /\ ~runs[r].aborted)
       => \A root \in Roots :
            MapHas(utilities', root) => root \in RootsOf(LocatedBy(runs[r]))]_vars

\* C35: a step of a run whose cancellation signal is set leaves the
\* extraction status as it is.
C35_CancelledRunKeepsStatus ==
  [][\A r \in RunIds :
       (runs[r].aborted /\ runs'[r] # runs[r]) => isExtracted' = isExtracted]_vars

\* C36: whenever a call of ensureExtracted resolves, at once or when the run
\* it awaits returns, isExtracted holds.
C36_ResolvedMeansExtracted ==
  [][\A i \in DOMAIN calls' :
       (calls'[i].resolved /\ (i \in DOMAIN calls => ~calls[i].resolved))
       => isExtracted']_vars

\* C37: the promise of no extractAll run is rejected, whether the Locator
\* failed, a root's parse or cache I/O failed, or the run was cancelled.
C37_NeverRejects == \A r \in RunIds : ~runs[r].rejected

\* A run that was not cancelled has returned after its Locator call failed,
\* and the critical error is shown.
C37_Witness ==
  \E r \in RunIds :
    /\ runs[r].pc = "done"
    /\ ~runs[r].aborted
    /\ faults > 0
    /\ notified = "criticalError"

\* C38: once the watcher is disposed of, no step arms a timer and no step
\* is a timer callback calling extractAll.
C38_QuietAfterDispose ==
  [][watchers = "disposed"
       => /\ DOMAIN timers' \subseteq DOMAIN timers
          /\ watched'.calls = watched.calls
          /\ nextRun' = nextRun]_vars

====
